---- MODULE Spec2Model ----
(***************************************************************************)
(* A model of the Spheron Terraform provider: the event-stream deployment  *)
(* waiter of internal/client/client.go and the resource reconcilers of     *)
(* internal/provider.                                                       *)
(*                                                                         *)
(* Strings the code searches, splits or concatenates are sequences of      *)
(* tokens, so that strings.Contains, strings.HasPrefix and "+" are          *)
(* computed, not assumed.  A Go slice is a record [nil, elems] because      *)
(* reflect.DeepEqual tells a nil slice from an empty one.                   *)
(***************************************************************************)
EXTENDS Integers, Sequences, FiniteSets, TLC

VARIABLES
    script,     \* the events the remote writes on the subscription, in order
    truncLast,  \* TRUE: the body ends right after the last event's "event:" line
    streamEnd,  \* "eof": the body ends after its lines; "open": it stays open
    pos,        \* WaitForDeployedEvent: index of the next line of the body
    wpc,        \* WaitForDeployedEvent: "idle" | "line" | "data" | "done"
    wdata,      \* WaitForDeployedEvent: the returned string
    werr,       \* WaitForDeployedEvent: the returned error ("" is nil)
    elapsed,    \* ticks the reader has been blocked on an open, silent body
    op,         \* the reconciler call in progress ("none": the waiter alone)
    rev,        \* the revision of the instance resource the call runs
    pc,         \* the reconciler's position
    plan,       \* req.Plan as decoded into the resource model
    state,      \* resp.State: <<>> when nothing is tracked, else <<model>>
    stateWrites,\* number of resp.State.Set calls of this operation
    diags,      \* resp.Diagnostics: [severity, summary] in the order added
    calls,      \* the remote calls issued, in order, each with its outcome
    remote,     \* what the remote holds: the instance's active order
    order,      \* the order as fetched by GetClusterInstanceOrder, if fetched
    response,   \* the InstanceResponse of the submit call
    topicId,    \* the uuid of the current submit
    ports,      \* the ports parsed from the event payload
    organizationId, \* SpheronApi.organizationId: the two words of a Go string
    callers,    \* the GetOrganizationId calls in progress on that gateway
    emitted     \* the terminal event the remote emitted for the token before
                \* the subscription was opened, if any

wvars == <<script, truncLast, streamEnd, pos, wpc, wdata, werr, elapsed>>

rvars == <<op, rev, pc, plan, state, stateWrites, diags, calls, remote, order,
           response, topicId, ports>>

gvars == <<organizationId, callers, emitted>>

vars == <<wvars, rvars, gvars>>

-----------------------------------------------------------------------------
(* Bounds and program constants *)

MaxEvents == 3

MaxTicks == 3

\* client.go:35, http.Client{Timeout: 600 * time.Second}
HttpTimeout == 600

\* client.go:243, http.DefaultClient: its Timeout field is zero, "no timeout"
DefaultClientTimeout == 0

TickSeconds == HttpTimeout \div 2

-----------------------------------------------------------------------------
(* Text: the server-sent-event framing and the strings package *)

EventNames == {"message", "ping"}

EventTypes == {1, 2, 3, 20, 31}

PortNumbers == {80, 8000}

NoPorts == <<>>

TypeKey == "\"type\":"

PortsKey == "\"data\":{\"ports\":"

\* strconv of a non-negative integer, one token per decimal digit
RECURSIVE Digits(_)
Digits(n) == IF n < 10 THEN <<ToString(n)>>
             ELSE Digits(n \div 10) \o <<ToString(n % 10)>>

RECURSIVE PortTokens(_)
PortTokens(ps) ==
    IF ps = <<>> THEN <<>>
    ELSE <<"{", ToString(Head(ps).containerPort), ":",
           ToString(Head(ps).exposedPort), "}">> \o PortTokens(Tail(ps))

Event(n, t, p, w) == [name |-> n, type |-> t, ports |-> p, wellFormed |-> w]

\* the "event: <name>" line of one event
EventLine(e) == <<"event: ", e.name, "\n">>

\* the "data: {...}" line of one event: compact JSON, "type" first
DataLine(e) ==
    <<"data: ", "{", TypeKey>> \o Digits(e.type) \o <<",", PortsKey, "[">>
        \o PortTokens(e.ports)
        \o (IF e.wellFormed THEN <<"]", "}", "}">> ELSE <<>>) \o <<"\n">>

BlankLine == <<"\n">>

RECURSIVE Lines(_)
Lines(events) ==
    IF events = <<>> THEN <<>>
    ELSE <<EventLine(Head(events)), DataLine(Head(events)), BlankLine>>
             \o Lines(Tail(events))

\* the lines the response body delivers before it ends or falls silent
Body == LET all == Lines(script)
        IN  IF truncLast THEN SubSeq(all, 1, Len(all) - 2) ELSE all

\* strings.HasPrefix
HasPrefix(s, prefix) ==
    /\ Len(s) >= Len(prefix)
    /\ SubSeq(s, 1, Len(prefix)) = prefix

\* strings.Contains
Contains(s, sub) ==
    \E i \in 1..(Len(s) - Len(sub) + 1) : SubSeq(s, i, i + Len(sub) - 1) = sub

-----------------------------------------------------------------------------
(* SpheronApi.WaitForDeployedEvent *)

LineAvailable == pos <= Len(Body)

\* the reader is inside ReadString with nothing to read and no end of body
Blocked == wpc \in {"line", "data"} /\ ~LineAvailable /\ streamEnd = "open"

\* http.Client.Timeout: zero means no timeout
Expired(timeout) == timeout # 0 /\ elapsed * TickSeconds >= timeout

WaitReturn(data, err) ==
    /\ wpc' = "done"
    /\ wdata' = data
    /\ werr' = err
    /\ UNCHANGED <<pos, elapsed>>

WaitFrame == UNCHANGED <<script, truncLast, streamEnd, rvars, gvars>>

\* client.go:251-256: line, err := reader.ReadString('\n'); HasPrefix
WaitReadLine ==
    /\ wpc = "line"
    /\ IF LineAvailable
       THEN /\ pos' = pos + 1
            /\ wpc' = IF HasPrefix(Body[pos], <<"event: ", "message">>)
                      THEN "data" ELSE "line"
            /\ UNCHANGED <<wdata, werr, elapsed>>
       ELSE IF streamEnd = "eof"
       THEN WaitReturn(<<>>, "EOF")
       ELSE /\ Expired(DefaultClientTimeout)
            /\ WaitReturn(<<>>, "timeout")
    /\ WaitFrame

\* client.go:257-270: data, err := reader.ReadString('\n'); Contains
WaitReadData ==
    /\ wpc = "data"
    /\ IF LineAvailable
       THEN LET data == Body[pos]
            IN  IF Contains(data, <<TypeKey, "2">>)
                THEN /\ WaitReturn(data, "")
                ELSE IF Contains(data, <<TypeKey, "3">>)
                THEN /\ WaitReturn(<<>>, "Deployment failed")
                ELSE /\ pos' = pos + 1
                     /\ wpc' = "line"
                     /\ UNCHANGED <<wdata, werr, elapsed>>
       ELSE IF streamEnd = "eof"
       THEN WaitReturn(<<>>, "EOF")
       ELSE /\ Expired(DefaultClientTimeout)
            /\ WaitReturn(<<>>, "timeout")
    /\ WaitFrame

\* time passes while the reader is blocked
Tick ==
    /\ Blocked
    /\ ~Expired(DefaultClientTimeout)
    /\ elapsed < MaxTicks
    /\ elapsed' = elapsed + 1
    /\ UNCHANGED <<script, truncLast, streamEnd, pos, wpc, wdata, werr, rvars, gvars>>

-----------------------------------------------------------------------------
(* Go values and the mapping layer of internal/provider/utils.go *)

NilSlice == [nil |-> TRUE, elems |-> <<>>]

Slice(elems) == [nil |-> FALSE, elems |-> elems]

\* append(a, b...): nil only when a is nil and nothing is appended
GoAppend(a, b) ==
    IF a.nil /\ Len(b.elems) = 0 THEN NilSlice ELSE Slice(a.elems \o b.elems)

\* reflect.DeepEqual of two slices: both nil or both non-nil, same length,
\* equal element by element
DeepEqual(a, b) ==
    /\ a.nil = b.nil
    /\ Len(a.elems) = Len(b.elems)
    /\ \A i \in 1..Len(a.elems) : a.elems[i] = b.elems[i]

\* a types.String / types.Int64 attribute: null, unknown or known
Null == [st |-> "null", v |-> <<>>]

Unknown == [st |-> "unknown", v |-> <<>>]

Known(v) == [st |-> "known", v |-> v]

NullInt == [st |-> "null", n |-> 0]

KnownInt(n) == [st |-> "known", n |-> n]

NullObject == [st |-> "null", Path |-> Null, Port |-> NullInt]

\* basetypes.StringValue.ValueString: "" unless known
ValueString(a) == IF a.st = "known" THEN a.v ELSE <<>>

IsNull(a) == a.st = "null"

\* utils.go:167-177: KEY=VALUE strings tagged with the secrecy flag
mapEnvsToClientEnvs(envList, isSecret) ==
    Slice([i \in 1..Len(envList.elems) |->
              [value |-> envList.elems[i].key \o <<"=">> \o envList.elems[i].value,
               isSecret |-> isSecret]])

\* strings.SplitN(s, "=", 2): the index of the first "="
FirstEq(s) == CHOOSE i \in 1..Len(s) : s[i] = "=" /\ \A j \in 1..(i - 1) : s[j] # "="

\* the index of the last "="
LastEq(s) == CHOOSE i \in 1..Len(s) : s[i] = "=" /\ \A j \in (i + 1)..Len(s) : s[j] # "="

mapClientEnvsToEnvs_LastEq(clientEnvs, isSecret) ==
    LET bucket == SelectSeq(clientEnvs.elems, LAMBDA e : e.isSecret = isSecret)
        envList == [i \in 1..Len(bucket) |->
                       [key   |-> SubSeq(bucket[i].value, 1, LastEq(bucket[i].value) - 1),
                        value |-> SubSeq(bucket[i].value, LastEq(bucket[i].value) + 1,
                                         Len(bucket[i].value))]]
    IN  IF Len(envList) = 0 THEN NilSlice ELSE Slice(envList)

\* utils.go:179-203: one secrecy bucket of the wire list, nil when empty
mapClientEnvsToEnvs(clientEnvs, isSecret) ==
    LET bucket == SelectSeq(clientEnvs.elems, LAMBDA e : e.isSecret = isSecret)
        envList == [i \in 1..Len(bucket) |->
                       [key   |-> SubSeq(bucket[i].value, 1, FirstEq(bucket[i].value) - 1),
                        value |-> SubSeq(bucket[i].value, FirstEq(bucket[i].value) + 1,
                                         Len(bucket[i].value))]]
    IN  IF Len(envList) = 0 THEN NilSlice ELSE Slice(envList)

\* utils.go:155-165: wire ports to model ports, never nil
mapModelPortToPort(portList) ==
    Slice([i \in 1..Len(portList.elems) |->
              [containerPort |-> KnownInt(portList.elems[i].containerPort),
               exposedPort   |-> KnownInt(portList.elems[i].exposedPort)]])

UnknownInt == [st |-> "unknown", n |-> 0]

\* basetypes.Int64Value.ValueInt64: 0 unless known
ValueInt64(a) == IF a.st = "known" THEN a.n ELSE 0

mapPortToPortModel_ExposedAsGiven(portList) ==
    Slice([i \in 1..Len(portList.elems) |->
              [containerPort |-> ValueInt64(portList.elems[i].containerPort),
               exposedPort   |-> ValueInt64(portList.elems[i].exposedPort)]])

\* utils.go:138-153: model ports to wire ports; an exposed port that is
\* unset or 0 becomes the container port
mapPortToPortModel(portList) ==
    Slice([i \in 1..Len(portList.elems) |->
              [containerPort |-> ValueInt64(portList.elems[i].containerPort),
               exposedPort   |->
                   IF ValueInt64(portList.elems[i].exposedPort) # 0
                   THEN ValueInt64(portList.elems[i].exposedPort)
                   ELSE ValueInt64(portList.elems[i].containerPort)]])

\* utils.go:77-95: wire ports to a list value of port objects
mapModelPortToPortValue(portList) ==
    [st |-> "known",
     elems |-> [i \in 1..Len(portList.elems) |->
                   [containerPort |-> KnownInt(portList.elems[i].containerPort),
                    exposedPort   |-> KnownInt(portList.elems[i].exposedPort)]]]

\* strconv of a port number back from its token
PortOfToken(tok) == CHOOSE n \in PortNumbers : ToString(n) = tok

\* strings.TrimPrefix(responseString, "data: ")
TrimDataPrefix(s) == IF HasPrefix(s, <<"data: ">>) THEN Tail(s) ELSE s

\* json.Unmarshal accepts the text: an object closed after its ports array
\* (trailing white space is allowed)
JsonValid(t) ==
    /\ Len(t) >= 5
    /\ t[1] = "{"
    /\ SubSeq(t, Len(t) - 3, Len(t)) = <<"]", "}", "}", "\n">>

\* utils.go:205-226: [err, ports] of the event payload
ParseClientPorts(responseString) ==
    LET t == TrimDataPrefix(responseString)
    IN  IF ~JsonValid(t) THEN [err |-> TRUE, ports |-> NilSlice]
        ELSE LET open  == CHOOSE i \in 1..Len(t) : t[i] = "["
                 close == CHOOSE i \in 1..Len(t) : t[i] = "]"
                 n     == (close - open - 1) \div 5
             IN  [err   |-> FALSE,
                  ports |-> Slice([k \in 1..n |->
                      [containerPort |-> PortOfToken(t[open + 5 * (k - 1) + 2]),
                       exposedPort   |-> PortOfToken(t[open + 5 * (k - 1) + 4])]])]

-----------------------------------------------------------------------------
(* What the reconcilers share *)

DiagDetail(severity, summary, detail) ==
    [severity |-> severity, summary |-> summary, detail |-> detail]

Diag(severity, summary) == DiagDetail(severity, summary, <<>>)

HasError == \E i \in 1..Len(diags) : diags[i].severity = "error"

\* one remote call: its outcome, the error message it returned ("" is nil)
\* and what of its request the model keeps
CallFull(name, topic, err, body) ==
    [name |-> name, ok |-> err = "", topic |-> topic, err |-> err, body |-> body]

\* sendApiRequest, client.go:78-86: the message of any other failure
ApiFailed == "API request failed with status: 500 Internal Server Error"

Call(name, ok, topic) == CallFull(name, topic, IF ok THEN "" ELSE ApiFailed, <<>>)

\* the remote call `name` is issued and answers ok or with an error
RemoteCall(name, ok, topic) == calls' = Append(calls, Call(name, ok, topic))

\* resp.Diagnostics.AddError(...); return
Fail(summary) ==
    /\ diags' = Append(diags, Diag("error", summary))
    /\ pc' = "done"

\* resp.Diagnostics.AddError(summary, detail); return
FailDetail(summary, detail) ==
    /\ diags' = Append(diags, DiagDetail("error", summary, detail))
    /\ pc' = "done"

\* resp.State.Set(ctx, model)
StateSet(model) ==
    /\ state' = <<model>>
    /\ stateWrites' = stateWrites + 1

NoResponse == [ClusterInstanceID |-> "", ClusterInstanceOrderID |-> ""]

\* models.go:106-111: the InstanceResponse of a successful submit
SubmitResponse == [ClusterInstanceID |-> "inst-1", ClusterInstanceOrderID |-> "order-1"]

\* a Go string value as the machine holds it: a data pointer and a length
GoString(ptr, len) == [ptr |-> ptr, len |-> len]

\* "": the zero value of the organizationId field
EmptyString == GoString("nil", 0)

\* tokenScope.Organizations[0].ID, the one organization of the token
OrganizationIdValue == GoString("org-1", 5)

\* s == "": the lengths are compared first
IsEmptyString(s) == s.len = 0

\* no GetOrganizationId call is modelled
NoGateway ==
    /\ organizationId = EmptyString
    /\ callers = <<>>
    /\ emitted = <<>>

\* client.go:137-149: every reconciler starts with GetOrganization
GetOrganization ==
    /\ pc = "org"
    /\ \E ok \in BOOLEAN :
        /\ RemoteCall("GetOrganization", ok, 0)
        /\ IF ok
           THEN /\ pc' = CASE op = "InstanceUpdate" -> "healthCheck"
                           [] op = "InstanceCreate" -> "submit"
                           [] OTHER -> "templates"
                /\ UNCHANGED diags
           ELSE Fail("Unable to get organization")
    /\ UNCHANGED <<wvars, gvars, op, rev, plan, state, stateWrites, remote, order,
                   response, topicId, ports>>

\* the events the remote answers a subscription with: a payload matters to
\* Create, which parses it, and not to Update, which drops it
ReconEvents(o) ==
    IF o = "InstanceUpdate"
    THEN {Event("message", t, NoPorts, TRUE) : t \in {2, 3}}
    ELSE {Event("message", 2, p, w) :
              p \in {NoPorts, <<[containerPort |-> 8000, exposedPort |-> 80]>>,
                     <<[containerPort |-> 80, exposedPort |-> 8000],
                       [containerPort |-> 8000, exposedPort |-> 80]>>},
              w \in BOOLEAN}
         \cup {Event("message", 3, NoPorts, TRUE)}

ReconScripts(o) ==
    {<<>>} \cup {<<e>> : e \in ReconEvents(o)}
           \cup {<<Event("message", 1, NoPorts, TRUE), e>> :
                    e \in {Event("message", t, NoPorts, TRUE) : t \in {2, 3}}}

\* the terminal events the remote may emit for the token
TerminalEvents(o) == {e \in ReconEvents(o) : e.type \in {2, 3}}

\* part_006:426-436, 663-672: the submit call has returned and
\* WaitForDeployedEvent has not yet sent its request; the deployment, which
\* the submit started, ends and the remote emits its terminal event
RemoteEmits ==
    /\ pc = "wait"
    /\ wpc = "idle"
    /\ emitted = <<>>
    /\ \E e \in TerminalEvents(op) : emitted' = <<e>>
    /\ UNCHANGED <<wvars, rvars, organizationId, callers>>

\* what the body of a subscription carries: the events emitted from its
\* opening on and, if the remote keeps them for late subscribers, the one
\* emitted before; the request names the token only (client.go:234), so which
\* of the two it is lies with the remote
SubscriptionScripts ==
    IF emitted = <<>> THEN ReconScripts(op) ELSE {emitted, <<>>}

Subscribe_TokenOfItsOwn ==
    /\ pc = "wait"
    /\ wpc = "idle"
    /\ \E connected \in BOOLEAN :
        /\ RemoteCall("WaitForDeployedEvent", connected, topicId + 1)
        /\ IF connected
           THEN /\ script' \in SubscriptionScripts
                /\ streamEnd' \in {"eof", "open"}
                /\ wpc' = "line"
                /\ UNCHANGED <<wdata, werr>>
           ELSE /\ wpc' = "done"
                /\ wdata' = <<>>
                /\ werr' = "connect"
                /\ UNCHANGED <<script, streamEnd>>
    /\ UNCHANGED <<truncLast, pos, elapsed>>
    /\ UNCHANGED gvars
    /\ UNCHANGED <<op, rev, pc, plan, state, stateWrites, diags, remote, order,
                   response, topicId, ports>>

\* client.go:234-249: WaitForDeployedEvent opens the subscription
Subscribe ==
    /\ pc = "wait"
    /\ wpc = "idle"
    /\ \E connected \in BOOLEAN :
        /\ RemoteCall("WaitForDeployedEvent", connected, topicId)
        /\ IF connected
           THEN /\ script' \in SubscriptionScripts
                /\ streamEnd' \in {"eof", "open"}
                /\ wpc' = "line"
                /\ UNCHANGED <<wdata, werr>>
           ELSE /\ wpc' = "done"
                /\ wdata' = <<>>
                /\ werr' = "connect"
                /\ UNCHANGED <<script, streamEnd>>
    /\ UNCHANGED <<truncLast, pos, elapsed>>
    /\ UNCHANGED gvars
    /\ UNCHANGED <<op, rev, pc, plan, state, stateWrites, diags, remote, order,
                   response, topicId, ports>>

ReconFrame == UNCHANGED <<wvars, gvars, op, rev, remote>>

-----------------------------------------------------------------------------
(* InstanceResource.Update *)

\* plan.HealthCheck.As(ctx, &healthCheck, opts): a null object fails the
\* conversion, its diagnostics are dropped and healthCheck keeps its zero
\* value, whose fields are null
HealthCheckAs(obj) ==
    IF obj.st = "known" THEN [Path |-> obj.Path, Port |-> obj.Port]
    ELSE [Path |-> Null, Port |-> NullInt]

\* the condition under which Update pushes the health check: none in the
\* current revision, path and port both set in the earlier one
HealthCheckGuard(r, healthCheck) ==
    IF r = "part_006" THEN TRUE
    ELSE ~IsNull(healthCheck.Path) /\ healthCheck.Port.st # "null"

\* envs := append(mapEnvsToClientEnvs(plan.Env, false),
\*                mapEnvsToClientEnvs(plan.EnvSecret, true)...)
MergedEnv(pl) ==
    GoAppend(mapEnvsToClientEnvs(pl.Env, FALSE), mapEnvsToClientEnvs(pl.EnvSecret, TRUE))

argsEqual(pl, ord) == DeepEqual(ord.Args, pl.Args)

commandEqual(pl, ord) == DeepEqual(ord.Command, pl.Commands)

envEqual(pl, ord) == DeepEqual(MergedEnv(pl), ord.Env)

tagEqual(pl, ord) == ValueString(pl.Tag) = ord.Tag

NeedsRedeploy_TagIgnored(pl, ord) ==
    ~argsEqual(pl, ord) \/ ~commandEqual(pl, ord) \/ ~envEqual(pl, ord)

\* if !argsEqual || !commandEqual || !envEqual || !tagEqual
NeedsRedeploy(pl, ord) ==
    ~argsEqual(pl, ord) \/ ~commandEqual(pl, ord) \/ ~envEqual(pl, ord)
        \/ ~tagEqual(pl, ord)

InstanceUpdate_HealthCheck ==
    /\ op = "InstanceUpdate"
    /\ pc = "healthCheck"
    /\ IF HealthCheckGuard(rev, HealthCheckAs(plan.HealthCheck))
       THEN \E ok \in BOOLEAN :
               /\ RemoteCall("UpdateClusterInstanceHealthCheckInfo", ok, 0)
               /\ IF ok
                  THEN pc' = "instance" /\ UNCHANGED diags
                  ELSE Fail("Unable to update instance healthchek endpoint.")
       ELSE /\ pc' = "instance"
            /\ UNCHANGED <<diags, calls>>
    /\ UNCHANGED <<plan, state, stateWrites, order, response, topicId, ports>>
    /\ ReconFrame

InstanceUpdate_GetInstance ==
    /\ op = "InstanceUpdate"
    /\ pc = "instance"
    /\ \E ok \in BOOLEAN :
        /\ RemoteCall("GetClusterInstance", ok, 0)
        /\ IF ok
           THEN pc' = "order" /\ UNCHANGED diags
           ELSE Fail("Coudnt fetch instance by provided id.")
    /\ UNCHANGED <<plan, state, stateWrites, order, response, topicId, ports>>
    /\ ReconFrame

InstanceUpdate_GetOrder ==
    /\ op = "InstanceUpdate"
    /\ pc = "order"
    /\ \E ok \in BOOLEAN :
        /\ RemoteCall("GetClusterInstanceOrder", ok, 0)
        /\ IF ok
           THEN /\ order' = <<remote.order>>
                /\ pc' = "diff"
                /\ UNCHANGED diags
           ELSE /\ Fail("Instance doesn't have provisioned deployments.")
                /\ UNCHANGED order
    /\ UNCHANGED <<plan, state, stateWrites, response, topicId, ports>>
    /\ ReconFrame

\* the four comparisons, then either uuid.New() and UpdateClusterInstance
\* or straight to resp.State.Set(ctx, plan)
InstanceUpdate_Diff ==
    /\ op = "InstanceUpdate"
    /\ pc = "diff"
    /\ IF NeedsRedeploy(plan, order[1])
       THEN /\ topicId' = topicId + 1
            /\ \E ok \in BOOLEAN :
                /\ RemoteCall("UpdateClusterInstance", ok, topicId + 1)
                /\ IF ok
                   THEN pc' = "wait" /\ UNCHANGED diags
                   ELSE Fail("Unable to update instance.")
            /\ UNCHANGED <<state, stateWrites>>
       ELSE /\ StateSet(plan)
            /\ pc' = "done"
            /\ UNCHANGED <<diags, calls, topicId>>
    /\ UNCHANGED <<plan, order, response, ports>>
    /\ ReconFrame

\* WaitForDeployedEvent has returned inside Update
InstanceUpdate_Waited ==
    /\ op = "InstanceUpdate"
    /\ pc = "wait"
    /\ wpc = "done"
    /\ IF werr # ""
       THEN /\ Fail("Instance deployment failed")
            /\ UNCHANGED <<state, stateWrites>>
       ELSE /\ StateSet(plan)
            /\ pc' = "done"
            /\ UNCHANGED diags
    /\ UNCHANGED <<plan, calls, order, response, topicId, ports>>
    /\ ReconFrame

-----------------------------------------------------------------------------
(* InstanceResource.Create *)

\* utils.go:305-310: drop the last two bytes of a string of two or more
RemoveGiSuffix(input) ==
    IF Len(input) < 2 THEN input ELSE SubSeq(input, 1, Len(input) - 2)

\* fmt.Sprint of the order's cpu figure
SprintCpu(cpu) == Digits(cpu)

\* plan.Memory and plan.Cpu as read back from the order
WithAgreedMachine(pl, ord) ==
    [pl EXCEPT !.Memory = Known(RemoveGiSuffix(ord.AgreedMachineImage.Memory)),
               !.Cpu    = Known(SprintCpu(ord.AgreedMachineImage.Cpu))]

WithIdAndPorts_PlanPortsKept(pl, resp, portList) ==
    [pl EXCEPT !.Id = Known(resp.ClusterInstanceID)]

\* plan.Id and plan.Ports as taken from the submit response and the payload
WithIdAndPorts(pl, resp, portList) ==
    [pl EXCEPT !.Id = Known(resp.ClusterInstanceID),
               !.Ports = IF op = "MarketplaceCreate"
                         THEN mapModelPortToPortValue(portList)
                         ELSE mapModelPortToPort(portList)]

\* uuid.New(), the machine image or custom plan choice, CreateClusterInstance
InstanceCreate_Submit ==
    /\ op = "InstanceCreate"
    /\ pc = "submit"
    /\ topicId' = topicId + 1
    /\ plan' = IF ValueString(plan.MachineImage) = <<>>
               THEN [plan EXCEPT !.MachineImage = Known(<<"Custom Plan">>)]
               ELSE plan
    /\ \E ok \in BOOLEAN :
        /\ RemoteCall("CreateClusterInstance", ok, topicId + 1)
        /\ IF ok
           THEN /\ response' = SubmitResponse
                /\ pc' = "wait"
                /\ UNCHANGED diags
           ELSE /\ Fail("Unable to deploy instance")
                /\ UNCHANGED response
    /\ UNCHANGED <<state, stateWrites, order, ports>>
    /\ ReconFrame

InstanceCreate_Waited_TracksFailed ==
    /\ op = "InstanceCreate"
    /\ pc = "wait"
    /\ wpc = "done"
    /\ IF werr # "" \/ ParseClientPorts(wdata).err
       THEN /\ Fail("Instance deployment failed.")
            /\ plan' = [plan EXCEPT !.Id = Known(response.ClusterInstanceID)]
            /\ StateSet(plan')
            /\ UNCHANGED ports
       ELSE /\ ports' = ParseClientPorts(wdata).ports
            /\ UNCHANGED diags
            /\ IF ValueString(plan.Cpu) = <<>> \/ ValueString(plan.Memory) = <<>>
               THEN /\ pc' = "readback"
                    /\ UNCHANGED <<plan, state, stateWrites>>
               ELSE /\ plan' = WithIdAndPorts(plan, response, ports')
                    /\ StateSet(plan')
                    /\ pc' = "done"
    /\ UNCHANGED <<calls, order, response, topicId>>
    /\ ReconFrame

\* WaitForDeployedEvent has returned inside Create: ParseClientPorts, then
\* either the order read-back or resp.State.Set
InstanceCreate_Waited ==
    /\ op = "InstanceCreate"
    /\ pc = "wait"
    /\ wpc = "done"
    /\ IF werr # "" \/ ParseClientPorts(wdata).err
       THEN /\ Fail("Instance deployment failed.")
            /\ UNCHANGED <<plan, state, stateWrites, ports>>
       ELSE /\ ports' = ParseClientPorts(wdata).ports
            /\ UNCHANGED diags
            /\ IF ValueString(plan.Cpu) = <<>> \/ ValueString(plan.Memory) = <<>>
               THEN /\ pc' = "readback"
                    /\ UNCHANGED <<plan, state, stateWrites>>
               ELSE /\ plan' = WithIdAndPorts(plan, response, ports')
                    /\ StateSet(plan')
                    /\ pc' = "done"
    /\ UNCHANGED <<calls, order, response, topicId>>
    /\ ReconFrame

\* GetClusterInstanceOrder(response.ClusterInstanceOrderID) inside Create
InstanceCreate_ReadBack ==
    /\ op = "InstanceCreate"
    /\ pc = "readback"
    /\ \E ok \in BOOLEAN :
        /\ RemoteCall("GetClusterInstanceOrder", ok, 0)
        /\ IF ok
           THEN /\ order' = <<remote.order>>
                /\ plan' = WithIdAndPorts(WithAgreedMachine(plan, remote.order),
                                          response, ports)
                /\ StateSet(plan')
                /\ pc' = "done"
                /\ UNCHANGED diags
           ELSE /\ Fail("Instance doesn't have provisioned deployments.")
                /\ UNCHANGED <<order, plan, state, stateWrites>>
    /\ UNCHANGED <<response, topicId, ports>>
    /\ ReconFrame

-----------------------------------------------------------------------------
(* MarketplaceInstanceResource.Create *)

\* utils.go:24-32: [err, app], the first app of that name
findMarketplaceAppByName(apps, name) ==
    IF \E i \in 1..Len(apps) : apps[i].Name = name
    THEN [err |-> FALSE,
          app |-> apps[CHOOSE i \in 1..Len(apps) :
                          /\ apps[i].Name = name
                          /\ \A j \in 1..(i - 1) : apps[j].Name # name]]
    ELSE [err |-> TRUE, app |-> [Name |-> <<>>, Variables |-> <<>>]]

\* utils.go:14-22: the machine of that name is on offer
findComputeMachineID(machines, name) ==
    [err |-> ~\E i \in 1..Len(machines) : machines[i].Name = name]

\* utils.go:46-75: every variable of the app starts out missing, whatever its
\* Required flag or default; an env entry whose key names one clears it
MissingVariables(appVariables, envList) ==
    {appVariables[i].Name : i \in 1..Len(appVariables)}
        \ {envList[i].key : i \in 1..Len(envList)}

\* allVariables[name]: the last variable written under that name
VariableNamed(appVariables, name) ==
    appVariables[CHOOSE i \in 1..Len(appVariables) :
                    /\ appVariables[i].Name = name
                    /\ \A j \in (i + 1)..Len(appVariables) : appVariables[j].Name # name]

\* utils.go:34-44: every env entry, its key as the label
mapMarketplaceEnvs(envList) ==
    [i \in 1..Len(envList) |-> [Value |-> envList[i].value, Label |-> envList[i].key]]

checkRequiredDeploymentVariables_KeyAsLabel(appVariables, envList) ==
    [err  |-> MissingVariables(appVariables, envList) # {},
     vars |-> mapMarketplaceEnvs(envList)]

\* fmt.Sprintf("Missing required deployment variable: %s", varName)
MissingMessage(varName) == <<"Missing required deployment variable: ">> \o varName

\* utils.go:46-75: [err, vars]; which missing variable the error names is
\* left to the caller, the map being ranged over in no fixed order
checkRequiredDeploymentVariables(appVariables, envList) ==
    LET names == {appVariables[i].Name : i \in 1..Len(appVariables)}
        used  == SelectSeq(envList, LAMBDA e : e.key \in names)
    IN  [err  |-> MissingVariables(appVariables, envList) # {},
         vars |-> [i \in 1..Len(used) |->
                      [Value |-> used[i].value,
                       Label |-> VariableNamed(appVariables, used[i].key).Label]]]

\* GetClusterTemplates, findMarketplaceAppByName, uuid.New(),
\* checkRequiredDeploymentVariables, then custom specs or the machine lookup
MarketplaceCreate_Templates ==
    /\ op = "MarketplaceCreate"
    /\ pc = "templates"
    /\ \E ok \in BOOLEAN :
        /\ RemoteCall("GetClusterTemplates", ok, 0)
        /\ IF ~ok
           THEN /\ Fail("Unable to get available markeplace apps.")
                /\ UNCHANGED <<plan, topicId>>
           ELSE LET found == findMarketplaceAppByName(remote.templates, plan.Name)
                IN  IF found.err
                    THEN /\ Fail("Unable to get marketplace app by provided name.")
                         /\ UNCHANGED <<plan, topicId>>
                    ELSE /\ topicId' = topicId + 1
                         /\ IF checkRequiredDeploymentVariables(
                                   found.app.Variables, plan.Env).err
                            THEN /\ \E varName \in MissingVariables(
                                                    found.app.Variables, plan.Env) :
                                        FailDetail("Required env variable not set!",
                                                   MissingMessage(varName))
                                 /\ UNCHANGED plan
                            ELSE /\ UNCHANGED diags
                                 /\ IF ~IsNull(plan.Cpu) /\ ~IsNull(plan.Memory)
                                    THEN /\ plan' = [plan EXCEPT !.MachineImage =
                                                        Known(<<"Custom Plan">>)]
                                         /\ pc' = "submit"
                                    ELSE /\ pc' = "machines"
                                         /\ UNCHANGED plan
    /\ UNCHANGED <<state, stateWrites, order, response, ports>>
    /\ ReconFrame

\* GetComputeMachines and findComputeMachineID
MarketplaceCreate_Machines ==
    /\ op = "MarketplaceCreate"
    /\ pc = "machines"
    /\ \E ok \in BOOLEAN :
        /\ RemoteCall("GetComputeMachines", ok, 0)
        /\ IF ~ok
           THEN Fail("Unable to get fetch available compute machines.")
           ELSE IF findComputeMachineID(remote.machines,
                                        ValueString(plan.MachineImage)).err
           THEN Fail("Unable to get machine image by provided name.")
           ELSE pc' = "submit" /\ UNCHANGED diags
    /\ UNCHANGED <<plan, state, stateWrites, order, response, topicId, ports>>
    /\ ReconFrame

\* marketplace_resource.go:855-902: the request carries deploymentEnv, what
\* checkRequiredDeploymentVariables returned
MarketplaceCreate_Submit ==
    /\ op = "MarketplaceCreate"
    /\ pc = "submit"
    /\ \E ok \in BOOLEAN :
        /\ calls' = Append(calls, CallFull("CreateClusterInstanceFromTemplate", topicId,
                        IF ok THEN "" ELSE ApiFailed,
                        checkRequiredDeploymentVariables(
                            findMarketplaceAppByName(remote.templates, plan.Name).app.Variables,
                            plan.Env).vars))
        /\ IF ok
           THEN /\ response' = SubmitResponse
                /\ pc' = "wait"
                /\ UNCHANGED diags
           ELSE /\ Fail("Unable to deploy instance from marketplace app.")
                /\ UNCHANGED response
    /\ UNCHANGED <<plan, state, stateWrites, order, topicId, ports>>
    /\ ReconFrame

\* WaitForDeployedEvent has returned inside Create: ParseClientPorts, the id
\* and the ports, then either the order read-back or resp.State.Set
MarketplaceCreate_Waited ==
    /\ op = "MarketplaceCreate"
    /\ pc = "wait"
    /\ wpc = "done"
    /\ IF werr # "" \/ ParseClientPorts(wdata).err
       THEN /\ Fail("Marketplace instance deployment failed.")
            /\ UNCHANGED <<plan, state, stateWrites, ports>>
       ELSE /\ ports' = ParseClientPorts(wdata).ports
            /\ plan' = WithIdAndPorts(plan, response, ports')
            /\ UNCHANGED diags
            /\ IF IsNull(plan.Cpu) /\ IsNull(plan.Memory)
               THEN /\ pc' = "readback"
                    /\ UNCHANGED <<state, stateWrites>>
               ELSE /\ StateSet(plan')
                    /\ pc' = "done"
    /\ UNCHANGED <<calls, order, response, topicId>>
    /\ ReconFrame

MarketplaceCreate_ReadBack ==
    /\ op = "MarketplaceCreate"
    /\ pc = "readback"
    /\ \E ok \in BOOLEAN :
        /\ RemoteCall("GetClusterInstanceOrder", ok, 0)
        /\ IF ok
           THEN /\ order' = <<remote.order>>
                /\ plan' = WithAgreedMachine(plan, remote.order)
                /\ StateSet(plan')
                /\ pc' = "done"
                /\ UNCHANGED diags
           ELSE /\ Fail("Instance doesn't have provisioned deployments.")
                /\ UNCHANGED <<order, plan, state, stateWrites>>
    /\ UNCHANGED <<response, topicId, ports>>
    /\ ReconFrame

-----------------------------------------------------------------------------
(* InstanceResource.Delete and MarketplaceInstanceResource.Delete *)

\* what the remote answers a close call with: a closed instance refuses it
CloseErrors(instanceState) ==
    IF instanceState = "Closed"
    THEN {"Instance already closed", ApiFailed}
    ELSE {"", "Instance not found", ApiFailed}

AlreadyClosedTolerated_Never(r, err) == FALSE

\* err.Error() != "Instance already closed" in the current revisions; the
\* first revision of the marketplace resource reports every error
AlreadyClosedTolerated(r, err) ==
    r = "part_006" /\ err = "Instance already closed"

\* CloseClusterInstance(state.Id.ValueString()) in either Delete
CloseInstance(summary) ==
    /\ pc = "close"
    /\ \E err \in CloseErrors(remote.instanceState) :
        /\ calls' = Append(calls, CallFull("CloseClusterInstance", 0, err, plan.Id.v))
        /\ IF err # "" /\ ~AlreadyClosedTolerated(rev, err)
           THEN FailDetail(summary, <<err>>)
           ELSE pc' = "done" /\ UNCHANGED diags
    /\ UNCHANGED <<plan, state, stateWrites, order, response, topicId, ports>>
    /\ ReconFrame

InstanceDelete_Close ==
    /\ op = "InstanceDelete"
    /\ CloseInstance("Unable to destroy Instance")

MarketplaceDelete_Close ==
    /\ op = "MarketplaceDelete"
    /\ CloseInstance("Unable to destroy marketplace instance")

-----------------------------------------------------------------------------
(* Link resolution, internal/provider/utils.go *)

NoProtocolData == [nil |-> TRUE, ProviderHost |-> <<>>]

ProtocolData(host) == [nil |-> FALSE, ProviderHost |-> host]

\* (input.ProtocolData != nil && input.ProtocolData.ProviderHost != "")
\*     || input.URLPreview != ""
HasDeploymentURL(input) ==
    \/ (~input.ProtocolData.nil /\ input.ProtocolData.ProviderHost # <<>>)
    \/ input.URLPreview # <<>>

\* fmt.Sprintf("%s:%d", input.ProtocolData.ProviderHost, port.ExposedPort)
HostPort(input, exposedPort) ==
    input.ProtocolData.ProviderHost \o <<":">> \o Digits(exposedPort)

\* utils.go:262-276: [panic, url]; the first mapping of the desired container
\* port decides, and formatting the provider host of an order without
\* protocol data dereferences a nil pointer
getInstanceDeploymentURL(input, desiredPort) ==
    LET portList == input.Ports
        hits == {i \in 1..Len(portList) : portList[i].containerPort = desiredPort}
    IN  IF ~HasDeploymentURL(input) \/ hits = {}
        THEN [panic |-> FALSE, url |-> <<>>]
        ELSE LET port == portList[CHOOSE i \in hits : \A j \in hits : i <= j]
             IN  IF port.exposedPort = 80 /\ input.URLPreview # <<>>
                 THEN [panic |-> FALSE, url |-> input.URLPreview]
                 ELSE IF input.ProtocolData.nil
                 THEN [panic |-> TRUE, url |-> <<>>]
                 ELSE [panic |-> FALSE, url |-> HostPort(input, port.exposedPort)]

\* utils.go:236-251, one turn of the loop onwards: [panic, err, port]
RECURSIVE PortFromURL(_, _, _)
PortFromURL(input, urlStr, portList) ==
    IF portList = <<>> THEN [panic |-> FALSE, err |-> TRUE, port |-> 0]
    ELSE IF urlStr = input.URLPreview /\ Head(portList).exposedPort = 80
    THEN [panic |-> FALSE, err |-> FALSE, port |-> Head(portList).containerPort]
    ELSE IF input.ProtocolData.nil
    THEN [panic |-> TRUE, err |-> FALSE, port |-> 0]
    ELSE IF urlStr = HostPort(input, Head(portList).exposedPort)
    THEN [panic |-> FALSE, err |-> FALSE, port |-> Head(portList).containerPort]
    ELSE PortFromURL(input, urlStr, Tail(portList))

\* utils.go:236-251
getPortFromDeploymentURL(input, urlStr) ==
    IF HasDeploymentURL(input) THEN PortFromURL(input, urlStr, input.Ports)
    ELSE [panic |-> FALSE, err |-> TRUE, port |-> 0]

NoDomain == [ID |-> <<>>, Name |-> <<>>, Verified |-> FALSE, Link |-> <<>>,
             Type |-> <<>>]

\* utils.go:253-260: [err, domain], the zero Domain when none has that id
findDomainByID(domains, id) ==
    LET hits == {i \in 1..Len(domains) : domains[i].ID = id}
    IN  IF hits = {} THEN [err |-> TRUE, domain |-> NoDomain]
        ELSE [err |-> FALSE, domain |-> domains[CHOOSE i \in hits : \A j \in hits : i <= j]]

-----------------------------------------------------------------------------
(* Read of the three resources *)

RemoveWithWarning_AsError(summary) ==
    /\ state' = <<>>
    /\ diags' = Append(diags, Diag("error", summary))
    /\ pc' = "done"
    /\ UNCHANGED stateWrites

\* resp.State.RemoveResource(ctx); resp.Diagnostics.AddWarning(...); return
RemoveWithWarning(summary) ==
    /\ state' = <<>>
    /\ diags' = Append(diags, Diag("warning", summary))
    /\ pc' = "done"
    /\ UNCHANGED stateWrites

\* the handler dies of a run-time panic: nothing is returned to the host
Panic ==
    /\ pc' = "panic"
    /\ UNCHANGED <<state, stateWrites, diags>>

\* what Read tracked of the instance before this Update
PriorState(ord) ==
    [Id          |-> Known(<<"inst-1">>),
     Args        |-> ord.Args,
     Commands    |-> ord.Command,
     Tag         |-> Known(ord.Tag),
     Env         |-> mapClientEnvsToEnvs(ord.Env, FALSE),
     EnvSecret   |-> mapClientEnvsToEnvs(ord.Env, TRUE),
     HealthCheck |-> NullObject]

\* utils.go:278-282
persistentStorageClassMap ==
    {<<<<"HDD">>, <<"beta1">>>>, <<<<"SSD">>, <<"beta2">>>>, <<<<"NVMe">>, <<"beta3">>>>}

\* utils.go:284-290: [err, value], "" with the error
GetPersistentStorageClassEnum(key) ==
    IF \E e \in persistentStorageClassMap : e[1] = key
    THEN [err |-> FALSE, value |-> (CHOOSE e \in persistentStorageClassMap : e[1] = key)[2]]
    ELSE [err |-> TRUE, value |-> <<>>]

\* utils.go:292-303: [err, class] through the reversed map, "" with the error
GetStorageClassFromValue(value) ==
    IF \E e \in persistentStorageClassMap : e[2] = value
    THEN [err |-> FALSE, class |-> (CHOOSE e \in persistentStorageClassMap : e[2] = value)[1]]
    ELSE [err |-> TRUE, class |-> <<>>]

DigitTokens == {"0", "1", "2", "3", "4", "5", "6", "7", "8", "9"}

DigitValue(tok) == CHOOSE n \in 0..9 : ToString(n) = tok

RECURSIVE DecimalValue(_)
DecimalValue(s) ==
    IF s = <<>> THEN 0 ELSE 10 * DecimalValue(SubSeq(s, 1, Len(s) - 1)) + DigitValue(s[Len(s)])

\* strconv.Atoi of an unsigned decimal: [err, n], 0 with the error
Atoi(s) ==
    IF s # <<>> /\ \A i \in 1..Len(s) : s[i] \in DigitTokens
    THEN [err |-> FALSE, n |-> DecimalValue(s)]
    ELSE [err |-> TRUE, n |-> 0]

\* the persistent_storage attribute: null, or an object of known fields
NullStorage == [st |-> "null", Class |-> Null, MountPoint |-> Null, Size |-> NullInt]

KnownStorage(class, mountPoint, size) ==
    [st |-> "known", Class |-> Known(class), MountPoint |-> Known(mountPoint),
     Size |-> KnownInt(size)]

\* models.go:70-74, 145: the order's *PersistentStorage
NoPersistentStorage == [nil |-> TRUE, Class |-> <<>>, MountPoint |-> <<>>, Size |-> <<>>]

PersistentStorage(class, mountPoint, size) ==
    [nil |-> FALSE, Class |-> class, MountPoint |-> mountPoint, Size |-> size]

\* part_006:562-583, marketplace_resource.go:1019-1040: [panic, value]; the
\* decoded state keeps its persistent storage unless the order has one with a
\* class; the error of the class lookup is dropped, and slicing a size of
\* fewer than two bytes is out of range
TrackedStorage(prior, pStorage) ==
    IF pStorage.nil \/ pStorage.Class = <<>>
    THEN [panic |-> FALSE, value |-> prior]
    ELSE IF Len(pStorage.Size) < 2
    THEN [panic |-> TRUE, value |-> prior]
    ELSE [panic |-> FALSE,
          value |-> KnownStorage(GetStorageClassFromValue(pStorage.Class).class,
                                 pStorage.MountPoint,
                                 Atoi(SubSeq(pStorage.Size, 1, Len(pStorage.Size) - 2)).n)]

\* the model with one more attribute
Extend(model, name, value) ==
    [k \in DOMAIN model \cup {name} |-> IF k = name THEN value ELSE model[k]]

\* part_006:489-510: the id check, GetClusterInstance, the Closed check
InstanceRead_GetInstance ==
    /\ op = "InstanceRead"
    /\ pc = "read"
    /\ IF ValueString(plan.Id) = <<>>
       THEN /\ Fail("Id not provided. Unable to get instance details.")
            /\ UNCHANGED <<calls, state, stateWrites>>
       ELSE \E ok \in BOOLEAN :
            /\ RemoteCall("GetClusterInstance", ok, 0)
            /\ IF ~ok
               THEN /\ Fail("Coudnt fetch instance by provided id.")
                    /\ UNCHANGED <<state, stateWrites>>
               ELSE IF remote.instanceState = "Closed"
               THEN RemoveWithWarning("Instance is closed")
               ELSE /\ pc' = "readOrder"
                    /\ UNCHANGED <<state, stateWrites, diags>>
    /\ UNCHANGED <<plan, order, response, topicId, ports>>
    /\ ReconFrame

InstanceRead_GetOrder_Degrades ==
    /\ op = "InstanceRead"
    /\ pc = "readOrder"
    /\ \E ok \in BOOLEAN :
        /\ RemoteCall("GetClusterInstanceOrder", ok, 0)
        /\ IF ok
           THEN /\ order' = <<remote.order>>
                /\ pc' = "readCluster"
                /\ UNCHANGED <<state, stateWrites>>
           ELSE /\ StateSet([plan EXCEPT !.Region = Known(<<>>)])
                /\ pc' = "done"
                /\ UNCHANGED order
    /\ UNCHANGED <<plan, diags, response, topicId, ports>>
    /\ ReconFrame

\* part_006:512-519
InstanceRead_GetOrder ==
    /\ op = "InstanceRead"
    /\ pc = "readOrder"
    /\ \E ok \in BOOLEAN :
        /\ RemoteCall("GetClusterInstanceOrder", ok, 0)
        /\ IF ok
           THEN /\ order' = <<remote.order>>
                /\ pc' = "readCluster"
                /\ UNCHANGED diags
           ELSE /\ Fail("Instance doesn't have provisioned deployments.")
                /\ UNCHANGED order
    /\ UNCHANGED <<plan, state, stateWrites, response, topicId, ports>>
    /\ ReconFrame

\* part_006:521-585: GetCluster, the refreshed model, resp.State.Set
InstanceRead_GetCluster ==
    /\ op = "InstanceRead"
    /\ pc = "readCluster"
    /\ \E ok \in BOOLEAN :
        /\ RemoteCall("GetCluster", ok, 0)
        /\ IF ok
           THEN LET storage == TrackedStorage(plan.PersistentStorage,
                                              remote.persistentStorage)
                IN  IF storage.panic THEN Panic
                    ELSE /\ StateSet(Extend(PriorState(order[1]), "PersistentStorage",
                                            storage.value))
                         /\ pc' = "done"
                         /\ UNCHANGED diags
           ELSE /\ Fail("Instance cluster not found.")
                /\ UNCHANGED <<state, stateWrites>>
    /\ UNCHANGED <<plan, order, response, topicId, ports>>
    /\ ReconFrame

\* marketplace_resource.go:959-980; the first revision (284-298) has no
\* Closed check
MarketplaceRead_GetInstance ==
    /\ op = "MarketplaceRead"
    /\ pc = "read"
    /\ IF IsNull(plan.Id)
       THEN /\ Fail("Id not provided. Unable to get marketplace instance details.")
            /\ UNCHANGED <<calls, state, stateWrites>>
       ELSE \E ok \in BOOLEAN :
            /\ RemoteCall("GetClusterInstance", ok, 0)
            /\ IF ~ok
               THEN /\ Fail("Coudnt fetch instance by provided id.")
                    /\ UNCHANGED <<state, stateWrites>>
               ELSE IF rev = "part_006" /\ remote.instanceState = "Closed"
               THEN RemoveWithWarning("Markerplace app instance is closed")
               ELSE /\ pc' = "readCluster"
                    /\ UNCHANGED <<state, stateWrites, diags>>
    /\ UNCHANGED <<plan, order, response, topicId, ports>>
    /\ ReconFrame

\* marketplace_resource.go:982-989 (first revision: 300-307)
MarketplaceRead_GetCluster ==
    /\ op = "MarketplaceRead"
    /\ pc = "readCluster"
    /\ \E ok \in BOOLEAN :
        /\ RemoteCall("GetCluster", ok, 0)
        /\ IF ok
           THEN pc' = "readOrder" /\ UNCHANGED diags
           ELSE Fail("Instance cluster not found.")
    /\ UNCHANGED <<plan, state, stateWrites, order, response, topicId, ports>>
    /\ ReconFrame

\* marketplace_resource.go:991-1055 (first revision: 309-346): an order that
\* cannot be fetched blanks machine image and region and is no error
MarketplaceRead_GetOrder ==
    /\ op = "MarketplaceRead"
    /\ pc = "readOrder"
    /\ \E ok \in BOOLEAN :
        /\ RemoteCall("GetClusterInstanceOrder", ok, 0)
        /\ IF ok
           THEN LET storage == TrackedStorage(plan.PersistentStorage,
                                              remote.persistentStorage)
                    refreshed == [plan EXCEPT !.MachineImage = Known(remote.machineType),
                                              !.Region = Known(remote.region),
                                              !.Name = remote.clusterName]
                IN  /\ order' = <<remote.order>>
                    /\ IF rev = "first_revision"
                       THEN StateSet(refreshed) /\ pc' = "done"
                       ELSE IF storage.panic THEN Panic
                       ELSE /\ StateSet([WithAgreedMachine(refreshed, remote.order)
                                            EXCEPT !.PersistentStorage = storage.value])
                            /\ pc' = "done"
           ELSE /\ StateSet([plan EXCEPT !.MachineImage = Known(<<>>),
                                         !.Region = Known(<<>>),
                                         !.Name = remote.clusterName])
                /\ pc' = "done"
                /\ UNCHANGED order
    /\ UNCHANGED <<plan, diags, response, topicId, ports>>
    /\ ReconFrame

\* domain_resource.go:181-196
DomainRead_GetDomains ==
    /\ op = "DomainRead"
    /\ pc = "read"
    /\ IF ValueString(plan.ID) = <<>> \/ ValueString(plan.InstanceID) = <<>>
       THEN /\ Fail("Id or instanceId not provided. Unable to get domain details.")
            /\ UNCHANGED calls
       ELSE \E ok \in BOOLEAN :
            /\ RemoteCall("GetClusterInstanceDomains", ok, 0)
            /\ IF ok
               THEN pc' = "readInstance" /\ UNCHANGED diags
               ELSE Fail("Coudn't fetch instance domains for provided instance id.")
    /\ UNCHANGED <<plan, state, stateWrites, order, response, topicId, ports>>
    /\ ReconFrame

\* domain_resource.go:198-211
DomainRead_GetInstance ==
    /\ op = "DomainRead"
    /\ pc = "readInstance"
    /\ \E ok \in BOOLEAN :
        /\ RemoteCall("GetClusterInstance", ok, 0)
        /\ IF ~ok
           THEN /\ Fail("Coudn't fetch instance for specified domain.")
                /\ UNCHANGED <<state, stateWrites>>
           ELSE IF remote.instanceState = "Closed" \/ remote.activeOrder = <<>>
           THEN RemoveWithWarning("Instance domain was attached to is closed")
           ELSE /\ pc' = "readOrder"
                /\ UNCHANGED <<state, stateWrites, diags>>
    /\ UNCHANGED <<plan, order, response, topicId, ports>>
    /\ ReconFrame

\* domain_resource.go:213-238: the order, the domain of that id (a failed
\* lookup is ignored), the container port behind its link, resp.State.Set
DomainRead_GetOrder ==
    /\ op = "DomainRead"
    /\ pc = "readOrder"
    /\ \E ok \in BOOLEAN :
        /\ RemoteCall("GetClusterInstanceOrder", ok, 0)
        /\ IF ~ok
           THEN /\ RemoveWithWarning(
                    "Instance domain is attached to doesn't have provisioned deployments.")
                /\ UNCHANGED order
           ELSE LET domain == findDomainByID(remote.domains, ValueString(plan.ID)).domain
                    found  == getPortFromDeploymentURL(remote.order, domain.Link)
                IN  /\ order' = <<remote.order>>
                    /\ IF found.panic THEN Panic
                       ELSE IF found.err
                       THEN RemoveWithWarning("Instance doesn't have provisioned deployments.")
                       ELSE /\ StateSet([plan EXCEPT
                                   !.InstancePort = KnownInt(found.port),
                                   !.Name = Known(domain.Name),
                                   !.Verified = domain.Verified,
                                   !.Type = Known(domain.Type)])
                            /\ pc' = "done"
                            /\ UNCHANGED diags
    /\ UNCHANGED <<plan, response, topicId, ports>>
    /\ ReconFrame

-----------------------------------------------------------------------------
(* MarketplaceInstanceResource.Update *)

MarketplaceUpdate_Set_Redeploys ==
    /\ op = "MarketplaceUpdate"
    /\ pc = "set"
    /\ \E ok \in BOOLEAN :
        /\ RemoteCall("UpdateClusterInstance", ok, 0)
        /\ IF ok
           THEN StateSet(plan) /\ pc' = "done" /\ UNCHANGED diags
           ELSE Fail("Unable to update instance") /\ UNCHANGED <<state, stateWrites>>
    /\ UNCHANGED <<plan, order, response, topicId, ports>>
    /\ ReconFrame

\* marketplace_resource.go:1058-1074: req.Plan.Get, resp.State.Set(ctx, plan)
MarketplaceUpdate_Set ==
    /\ op = "MarketplaceUpdate"
    /\ pc = "set"
    /\ StateSet(plan)
    /\ pc' = "done"
    /\ UNCHANGED <<plan, diags, calls, order, response, topicId, ports>>
    /\ ReconFrame

-----------------------------------------------------------------------------
(* DomainResource.Create and DomainResource.Update *)

\* utils.go:228-234
isValidDomainType(value) == value \in {<<"domain">>, <<"subdomain">>}

\* client.DomainRequest{Name, Type, Link}
DomainRequest(pl, url) ==
    [Name |-> ValueString(pl.Name), Type |-> ValueString(pl.Type), Link |-> url]

\* the type check and GetClusterInstance(plan.InstanceID) of Create and Update
DomainGetInstance(summary) ==
    /\ pc = "domInstance"
    /\ IF ~isValidDomainType(ValueString(plan.Type))
       THEN /\ Fail("DomainType not supported.")
            /\ UNCHANGED calls
       ELSE \E ok \in BOOLEAN :
            /\ RemoteCall("GetClusterInstance", ok, 0)
            /\ IF ok
               THEN pc' = "domOrder" /\ UNCHANGED diags
               ELSE Fail(summary)
    /\ UNCHANGED <<plan, state, stateWrites, order, response, topicId, ports>>
    /\ ReconFrame

\* GetClusterInstanceOrder(instance.ActiveOrder), getInstanceDeploymentURL
\* and the empty-url check of Create and Update
DomainGetOrder(summary, summaryNoUrl) ==
    /\ pc = "domOrder"
    /\ \E ok \in BOOLEAN :
        /\ RemoteCall("GetClusterInstanceOrder", ok, 0)
        /\ IF ~ok
           THEN /\ Fail(summary)
                /\ UNCHANGED <<order, state, stateWrites>>
           ELSE LET link == getInstanceDeploymentURL(remote.order,
                                                     plan.InstancePort.n)
                IN  /\ order' = <<remote.order>>
                    /\ IF link.panic THEN Panic
                       ELSE /\ UNCHANGED <<state, stateWrites>>
                            /\ IF link.url = <<>>
                               THEN Fail(summaryNoUrl)
                               ELSE pc' = "domSubmit" /\ UNCHANGED diags
    /\ UNCHANGED <<plan, response, topicId, ports>>
    /\ ReconFrame

DomainCreate_GetInstance ==
    /\ op = "DomainCreate"
    /\ DomainGetInstance("Unable to create domain for instance111")

DomainCreate_GetOrder ==
    /\ op = "DomainCreate"
    /\ DomainGetOrder("Unable to create domain for instance1112222",
                      "Unable to create domain for instance333, no urls")

\* domain_resource.go:146-168: AddClusterInstanceDomain, plan.ID,
\* plan.Verified, resp.State.Set
DomainCreate_Add ==
    /\ op = "DomainCreate"
    /\ pc = "domSubmit"
    /\ \E ok \in BOOLEAN :
        /\ calls' = Append(calls, CallFull("AddClusterInstanceDomain", 0,
                        IF ok THEN "" ELSE ApiFailed,
                        DomainRequest(plan, getInstanceDeploymentURL(
                            order[1], plan.InstancePort.n).url)))
        /\ IF ok
           THEN /\ plan' = [plan EXCEPT !.ID = Known(remote.domain.ID),
                                        !.Verified = remote.domain.Verified]
                /\ StateSet(plan')
                /\ pc' = "done"
                /\ UNCHANGED diags
           ELSE /\ Fail("Unable to create domain")
                /\ UNCHANGED <<plan, state, stateWrites>>
    /\ UNCHANGED <<order, response, topicId, ports>>
    /\ ReconFrame

DomainUpdate_GetInstance ==
    /\ op = "DomainUpdate"
    /\ DomainGetInstance("Unable to create domain for instance")

DomainUpdate_GetOrder ==
    /\ op = "DomainUpdate"
    /\ DomainGetOrder("Unable to create domain for instance",
                      "Unable to create domain for instance")

DomainUpdate_Patch_OnlyWhenRenamed ==
    /\ op = "DomainUpdate"
    /\ pc = "domSubmit"
    /\ IF state # <<>> /\ state[1].Name = plan.Name /\ state[1].Type = plan.Type
       THEN /\ StateSet([plan EXCEPT !.Verified = remote.domain.Verified])
            /\ pc' = "done"
            /\ UNCHANGED <<diags, calls>>
       ELSE \E ok \in BOOLEAN :
            /\ calls' = Append(calls, CallFull("UpdateClusterInstanceDomain", 0,
                            IF ok THEN "" ELSE ApiFailed,
                            DomainRequest(plan, getInstanceDeploymentURL(
                                order[1], plan.InstancePort.n).url)))
            /\ IF ok
               THEN /\ StateSet([plan EXCEPT !.Verified = remote.domain.Verified])
                    /\ pc' = "done"
                    /\ UNCHANGED diags
               ELSE /\ Fail("Unable to create domain")
                    /\ UNCHANGED <<state, stateWrites>>
    /\ UNCHANGED <<plan, order, response, topicId, ports>>
    /\ ReconFrame

\* domain_resource.go:284-307: UpdateClusterInstanceDomain, plan.Verified,
\* resp.State.Set
DomainUpdate_Patch ==
    /\ op = "DomainUpdate"
    /\ pc = "domSubmit"
    /\ \E ok \in BOOLEAN :
        /\ calls' = Append(calls, CallFull("UpdateClusterInstanceDomain", 0,
                        IF ok THEN "" ELSE ApiFailed,
                        DomainRequest(plan, getInstanceDeploymentURL(
                            order[1], plan.InstancePort.n).url)))
        /\ IF ok
           THEN /\ StateSet([plan EXCEPT !.Verified = remote.domain.Verified])
                /\ pc' = "done"
                /\ UNCHANGED diags
           ELSE /\ Fail("Unable to create domain")
                /\ UNCHANGED <<state, stateWrites>>
    /\ UNCHANGED <<plan, order, response, topicId, ports>>
    /\ ReconFrame

\* the host applies the same plan once more against the unchanged remote
DomainUpdate_Repeat ==
    /\ op = "DomainUpdate"
    /\ pc = "done"
    /\ ~HasError
    /\ stateWrites = 1
    /\ pc' = "domInstance"
    /\ UNCHANGED <<plan, state, stateWrites, diags, calls, order, response,
                   topicId, ports>>
    /\ ReconFrame

-----------------------------------------------------------------------------
(* The plans the host hands over and what the remote holds *)

Ops == {"InstanceUpdate", "InstanceCreate", "MarketplaceCreate",
        "InstanceDelete", "MarketplaceDelete",
        "InstanceRead", "MarketplaceRead", "DomainRead",
        "DomainCreate", "DomainUpdate", "MarketplaceUpdate"}

\* the revisions of a handler the repository holds; "part_006" stands for
\* the current one of every handler
Revs(o) == CASE o = "InstanceUpdate" -> {"part_006", "instance_resource"}
             [] o \in {"MarketplaceDelete", "MarketplaceRead"} ->
                    {"part_006", "first_revision"}
             [] OTHER -> {"part_006"}

InstanceStates == {"Deployed", "Closed"}

EnvPlain == [key |-> <<"K">>, value |-> <<"a">>]

EnvSecret == [key |-> <<"S">>, value |-> <<"b">>]

WirePlain == [value |-> <<"K", "=", "a">>, isSecret |-> FALSE]

WireSecret == [value |-> <<"S", "=", "b">>, isSecret |-> TRUE]

HealthCheckBlock ==
    [st |-> "known", Path |-> Known(<<"/health">>), Port |-> KnownInt(8000)]

\* an optional attribute the configuration leaves out reaches the handler
\* null, or unknown when it is also computed
Unset == {Null, Unknown}

\* machine_image conflicts with cpu and memory; cpu and memory require each
\* other
MachineChoices ==
    {c \in [MachineImage : Unset \cup {Known(<<"Ventus Nano">>)},
            Cpu          : Unset \cup {Known(<<"1">>)},
            Memory       : Unset \cup {Known(<<"2">>)}] :
        /\ c.Cpu.st = c.Memory.st
        /\ ~(c.MachineImage.st = "known" /\ c.Cpu.st = "known")}

UpdatePlans ==
    [Id          : {Known(<<"inst-1">>)},
     Args        : {NilSlice, Slice(<<>>), Slice(<<"a", "b">>), Slice(<<"b", "a">>)},
     Commands    : {NilSlice, Slice(<<"a", "b">>), Slice(<<"b", "a">>)},
     Tag         : {Known(<<"v1">>), Known(<<"v2">>)},
     Env         : {NilSlice, Slice(<<EnvPlain>>)},
     EnvSecret   : {NilSlice, Slice(<<EnvSecret>>)},
     HealthCheck : {NullObject, HealthCheckBlock}]

InstanceCreatePlans ==
    {[Id           |-> Unknown,
      MachineImage |-> c.MachineImage,
      Cpu          |-> c.Cpu,
      Memory       |-> c.Memory,
      Ports        |-> Slice(<<[containerPort |-> KnownInt(8000),
                                exposedPort   |-> KnownInt(8000)]>>)] :
        c \in MachineChoices}

EnvEntry(key, value) == [key |-> <<key>>, value |-> <<value>>]

\* the env set of a marketplace plan: nothing, the required variable alone,
\* with a key no template declares, with the other variables
MarketplaceEnvs ==
    {<<>>,
     <<EnvEntry("API_KEY", "x")>>,
     <<EnvEntry("EXTRA", "y"), EnvEntry("API_KEY", "x")>>,
     <<EnvEntry("API_KEY", "x"), EnvEntry("LOG_LEVEL", "debug")>>,
     <<EnvEntry("REGION", "eu"), EnvEntry("LOG_LEVEL", "debug")>>}

MarketplacePlans ==
    {[Id           |-> Unknown,
      Name         |-> n,
      Env          |-> e,
      MachineImage |-> c.MachineImage,
      Cpu          |-> c.Cpu,
      Memory       |-> c.Memory,
      Ports        |-> [st |-> "unknown", elems |-> <<>>]] :
        n \in {<<"app">>, <<"other">>},
        e \in MarketplaceEnvs,
        c \in MachineChoices}

Order(args, command, env, tag, memory) ==
    [Args |-> args, Command |-> command, Env |-> env, Tag |-> tag,
     AgreedMachineImage |-> [Cpu |-> 1, Memory |-> memory]]

UpdateOrders ==
    {Order(a, Slice(<<"a", "b">>), e, <<"v1">>, <<"2", "G", "i">>) :
        a \in {NilSlice, Slice(<<"a", "b">>)},
        e \in {NilSlice, Slice(<<>>), Slice(<<WirePlain, WireSecret>>),
               Slice(<<WireSecret, WirePlain>>)}}

CreateOrders ==
    {Order(NilSlice, NilSlice, NilSlice, <<"v1">>, m) :
        m \in {<<"2", "G", "i">>, <<"4">>}}

RequiredVariable ==
    [Name |-> <<"API_KEY">>, Label |-> <<"Api key">>, DefaultValue |-> <<>>,
     Required |-> TRUE]

OptionalVariable ==
    [Name |-> <<"LOG_LEVEL">>, Label |-> <<"Log level">>, DefaultValue |-> <<>>,
     Required |-> FALSE]

DefaultedVariable ==
    [Name |-> <<"REGION">>, Label |-> <<"Region">>, DefaultValue |-> <<"us">>,
     Required |-> TRUE]

Templates ==
    {<<[Name |-> <<"app">>, Variables |-> v]>> :
        v \in {<<>>, <<RequiredVariable>>, <<RequiredVariable, OptionalVariable>>,
               <<DefaultedVariable, OptionalVariable>>}}

Machines == {<<>>, <<[Name |-> <<"Ventus Nano">>]>>}

\* the tracked model of a marketplace instance, as req.State decodes it
MarketplaceTracked ==
    [Id           |-> Known(<<"inst-1">>),
     Name         |-> <<"app">>,
     Env          |-> <<>>,
     MachineImage |-> Known(<<"Custom Plan">>),
     Cpu          |-> Known(<<"1">>),
     Memory       |-> Known(<<"2">>),
     Ports        |-> [st |-> "known", elems |-> <<>>]]

\* the tracked model of a domain, as req.State decodes it
DomainTracked ==
    [ID           |-> Known(<<"dom-1">>),
     Name         |-> Known(<<"www.example.com">>),
     Verified     |-> FALSE,
     InstancePort |-> KnownInt(8000),
     Type         |-> Known(<<"domain">>),
     InstanceID   |-> Known(<<"inst-1">>)]

DomainCreatePlans ==
    [ID           : {Unknown},
     Name         : {Known(<<"www.example.com">>)},
     Verified     : {FALSE},
     InstancePort : {KnownInt(8000), KnownInt(80)},
     Type         : {Known(<<"domain">>), Known(<<"subdomain">>), Known(<<"alias">>)},
     InstanceID   : {Known(<<"inst-1">>)}]

\* an Update is called for a plan that differs from the tracked state
DomainUpdatePlans ==
    [ID           : {Known(<<"dom-1">>)},
     Name         : {Known(<<"www.example.com">>), Known(<<"app.example.com">>)},
     Verified     : {FALSE},
     InstancePort : {KnownInt(8000), KnownInt(80)},
     Type         : {Known(<<"domain">>), Known(<<"subdomain">>), Known(<<"alias">>)},
     InstanceID   : {Known(<<"inst-1">>)}] \ {DomainTracked}

WirePort(c, e) == [containerPort |-> c, exposedPort |-> e]

\* what the link resolution reads of an order
DomainOrders ==
    [URLPreview   : {<<>>, <<"https://foo.example">>},
     ProtocolData : {NoProtocolData, ProtocolData(<<>>), ProtocolData(<<"host:1">>)},
     Ports        : {<<>>, <<WirePort(8000, 80)>>, <<WirePort(8000, 30001)>>,
                     <<WirePort(8000, 30001), WirePort(8000, 80)>>,
                     <<WirePort(80, 30002), WirePort(8000, 30001)>>}]

\* the domains the remote lists for the instance
DomainLists ==
    {<<>>} \cup
    {<<[ID |-> <<"dom-1">>, Name |-> <<"www.example.com">>, Verified |-> TRUE,
        Link |-> l, Type |-> <<"domain">>]>> :
        l \in {<<>>, <<"https://foo.example">>, <<"host:1", ":", "3", "0", "0", "0", "1">>}}

\* the persistent storage a tracked model may hold
TrackedStorages == {NullStorage, KnownStorage(<<"HDD">>, <<"/data">>, 10)}

\* the persistent storage an order may carry: none, one without a class, of
\* a known class, of a class the provider has no name for, of a size that
\* is no "<n>Gi"
PersistentStorages ==
    {NoPersistentStorage,
     PersistentStorage(<<>>, <<"/data">>, <<"2", "0", "G", "i">>),
     PersistentStorage(<<"beta2">>, <<"/data">>, <<"2", "0", "G", "i">>),
     PersistentStorage(<<"beta9">>, <<"/data">>, <<"2", "0", "G", "i">>),
     PersistentStorage(<<"beta3">>, <<"/data">>, <<>>)}

\* the tracked model of a marketplace instance Read is handed
MarketplaceReadTracked ==
    {Extend(Extend(MarketplaceTracked, "Region", Known(<<"us-west">>)),
            "PersistentStorage", ps) : ps \in TrackedStorages}

\* req.Plan of Create and Update; req.State of Read and Delete
Plans(o) == CASE o = "InstanceUpdate" -> UpdatePlans
              [] o = "InstanceCreate" -> InstanceCreatePlans
              [] o = "MarketplaceCreate" -> MarketplacePlans
              [] o = "InstanceDelete" -> {PriorState(r) : r \in UpdateOrders}
              [] o = "MarketplaceDelete" -> {MarketplaceTracked}
              [] o = "InstanceRead" ->
                    {Extend(PriorState(r), "PersistentStorage", ps) :
                        r \in UpdateOrders, ps \in TrackedStorages}
              [] o = "MarketplaceRead" -> MarketplaceReadTracked
              [] o = "DomainRead" -> {DomainTracked}
              [] o = "DomainCreate" -> DomainCreatePlans
              [] o = "DomainUpdate" -> DomainUpdatePlans
              [] o = "MarketplaceUpdate" ->
                    {[p EXCEPT !.Id = Known(<<"inst-1">>)] : p \in MarketplacePlans}

Remotes(o) ==
    CASE o = "InstanceUpdate" ->
            {[order |-> r, templates |-> <<>>, machines |-> <<>>] : r \in UpdateOrders}
      [] o = "InstanceCreate" ->
            {[order |-> r, templates |-> <<>>, machines |-> <<>>] : r \in CreateOrders}
      [] o = "MarketplaceCreate" ->
            {[order |-> r, templates |-> t, machines |-> m] :
                r \in CreateOrders, t \in Templates, m \in Machines}
      [] o \in {"InstanceDelete", "MarketplaceDelete"} ->
            {[instanceState |-> st] : st \in InstanceStates}
      [] o = "InstanceRead" ->
            {[instanceState |-> st, order |-> r, persistentStorage |-> ps] :
                st \in InstanceStates, r \in UpdateOrders, ps \in PersistentStorages}
      [] o = "MarketplaceRead" ->
            {[instanceState |-> st, order |-> r, persistentStorage |-> ps,
              clusterName |-> <<"cluster-1">>, region |-> <<"eu-east">>,
              machineType |-> <<"Ventus Nano">>] :
                st \in InstanceStates, r \in CreateOrders, ps \in PersistentStorages}
      [] o = "DomainRead" ->
            {[instanceState |-> st, activeOrder |-> a, order |-> r, domains |-> l] :
                st \in InstanceStates, a \in {<<>>, <<"order-1">>},
                r \in DomainOrders, l \in DomainLists}
      [] o = "MarketplaceUpdate" ->
            {[instanceState |-> st] : st \in InstanceStates}
      [] o \in {"DomainCreate", "DomainUpdate"} ->
            {[order |-> r, domain |-> [ID |-> <<"dom-1">>, Verified |-> v]] :
                r \in DomainOrders, v \in BOOLEAN}

\* no reconciler call is in progress
NoReconciler ==
    /\ op = "none"
    /\ rev = "part_006"
    /\ pc = "done"
    /\ plan = <<>>
    /\ state = <<>>
    /\ stateWrites = 0
    /\ diags = <<>>
    /\ calls = <<>>
    /\ remote = <<>>
    /\ order = <<>>
    /\ response = NoResponse
    /\ topicId = 0
    /\ ports = NilSlice
    /\ NoGateway

-----------------------------------------------------------------------------
(* One reconciler call, from the decoded plan to its return *)

\* the first step of each handler after it has decoded its request
StartPc(o) == CASE o \in {"InstanceUpdate", "InstanceCreate", "MarketplaceCreate"} -> "org"
                [] o \in {"InstanceDelete", "MarketplaceDelete"} -> "close"
                [] o \in {"InstanceRead", "MarketplaceRead", "DomainRead"} -> "read"
                [] o \in {"DomainCreate", "DomainUpdate"} -> "domInstance"
                [] o = "MarketplaceUpdate" -> "set"

\* resp.State as the host hands it over: empty for Create, the prior state
\* otherwise
TrackedBefore(o, pl, rem) ==
    CASE o \in {"InstanceCreate", "MarketplaceCreate", "DomainCreate"} -> <<>>
      [] o = "InstanceUpdate" -> <<PriorState(rem.order)>>
      [] o = "DomainUpdate" -> <<DomainTracked>>
      [] o = "MarketplaceUpdate" -> <<MarketplaceTracked>>
      [] OTHER -> <<pl>>

InitProvider ==
    /\ op \in Ops
    /\ rev \in Revs(op)
    /\ plan \in Plans(op)
    /\ remote \in Remotes(op)
    /\ pc = StartPc(op)
    /\ state = TrackedBefore(op, plan, remote)
    /\ stateWrites = 0
    /\ diags = <<>>
    /\ calls = <<>>
    /\ order = <<>>
    /\ response = NoResponse
    /\ topicId = 0
    /\ ports = NilSlice
    /\ NoGateway
    /\ script = <<>>
    /\ truncLast = FALSE
    /\ streamEnd = "eof"
    /\ pos = 1
    /\ wpc = "idle"
    /\ wdata = <<>>
    /\ werr = ""
    /\ elapsed = 0

NextProvider ==
    \/ GetOrganization
    \/ InstanceUpdate_HealthCheck
    \/ InstanceUpdate_GetInstance
    \/ InstanceUpdate_GetOrder
    \/ InstanceUpdate_Diff
    \/ InstanceUpdate_Waited
    \/ InstanceCreate_Submit
    \/ InstanceCreate_Waited
    \/ InstanceCreate_ReadBack
    \/ MarketplaceCreate_Templates
    \/ MarketplaceCreate_Machines
    \/ MarketplaceCreate_Submit
    \/ MarketplaceCreate_Waited
    \/ MarketplaceCreate_ReadBack
    \/ InstanceDelete_Close
    \/ MarketplaceDelete_Close
    \/ InstanceRead_GetInstance
    \/ InstanceRead_GetOrder
    \/ InstanceRead_GetCluster
    \/ MarketplaceRead_GetInstance
    \/ MarketplaceRead_GetCluster
    \/ MarketplaceRead_GetOrder
    \/ DomainRead_GetDomains
    \/ DomainRead_GetInstance
    \/ DomainRead_GetOrder
    \/ DomainCreate_GetInstance
    \/ DomainCreate_GetOrder
    \/ DomainCreate_Add
    \/ DomainUpdate_GetInstance
    \/ DomainUpdate_GetOrder
    \/ DomainUpdate_Patch
    \/ DomainUpdate_Repeat
    \/ MarketplaceUpdate_Set
    \/ RemoteEmits
    \/ Subscribe
    \/ WaitReadLine
    \/ WaitReadData
    \/ Tick

SpecProvider == InitProvider /\ [][NextProvider]_vars

-----------------------------------------------------------------------------
(* The waiter on its own, over every scripted stream *)

WaitEvents == {Event(n, t, NoPorts, TRUE) : n \in EventNames, t \in EventTypes}

SeqsUpTo(S, n) == UNION {[1..k -> S] : k \in 0..n}

-----------------------------------------------------------------------------
(* The two port mappings on their own: a list is written and read back, or
   read and written back *)

MaxPorts == 2

\* exposed_port is optional and computed: null, unknown or a number
ModelPorts ==
    [containerPort : {KnownInt(80), KnownInt(8000)},
     exposedPort   : {NullInt, UnknownInt, KnownInt(0), KnownInt(80), KnownInt(8000)}]

WirePorts == [containerPort : {80, 8000}, exposedPort : {0, 80, 8000}]

\* a []T of up to MaxPorts elements, nil or empty when it has none
SlicesOf(S) ==
    {NilSlice} \cup {Slice(q) : q \in UNION {[1..n -> S] : n \in 0..MaxPorts}}

\* the same with the bound handed in
SlicesOfLen(S, max) ==
    {NilSlice} \cup {Slice(q) : q \in UNION {[1..n -> S] : n \in 0..max}}

InitPorts ==
    /\ op \in {"PortsWrite", "PortsRead"}
    /\ rev = "part_006"
    /\ plan \in (IF op = "PortsWrite" THEN SlicesOf(ModelPorts) ELSE SlicesOf(WirePorts))
    /\ pc = (IF op = "PortsWrite" THEN "toWire" ELSE "fromWire")
    /\ state = <<>>
    /\ stateWrites = 0
    /\ diags = <<>>
    /\ calls = <<>>
    /\ remote = <<>>
    /\ order = <<>>
    /\ response = NoResponse
    /\ topicId = 0
    /\ ports = NilSlice
    /\ NoGateway
    /\ script = <<>>
    /\ truncLast = FALSE
    /\ streamEnd = "eof"
    /\ pos = 1
    /\ wpc = "idle"
    /\ wdata = <<>>
    /\ werr = ""
    /\ elapsed = 0

\* mapPortToPortModel applied to the list in hand: the original (in plan) or
\* the one just read (in order)
Ports_ToWire ==
    /\ pc = "toWire"
    /\ IF op = "PortsWrite"
       THEN /\ order' = <<mapPortToPortModel(plan)>>
            /\ pc' = "fromWire"
            /\ UNCHANGED ports
       ELSE /\ ports' = mapPortToPortModel(order[1])
            /\ pc' = "done"
            /\ UNCHANGED order
    /\ UNCHANGED <<wvars, gvars, op, rev, plan, state, stateWrites, diags, calls, remote,
                   response, topicId>>

\* mapModelPortToPort applied to the list in hand
Ports_FromWire ==
    /\ pc = "fromWire"
    /\ IF op = "PortsRead"
       THEN /\ order' = <<mapModelPortToPort(plan)>>
            /\ pc' = "toWire"
            /\ UNCHANGED ports
       ELSE /\ ports' = mapModelPortToPort(order[1])
            /\ pc' = "done"
            /\ UNCHANGED order
    /\ UNCHANGED <<wvars, gvars, op, rev, plan, state, stateWrites, diags, calls, remote,
                   response, topicId>>

NextPorts == Ports_ToWire \/ Ports_FromWire

SpecPorts == InitPorts /\ [][NextPorts]_vars

-----------------------------------------------------------------------------
(* The two env mappings on their own: a list is written under a secrecy flag
   and both buckets of the written list are read back *)

MaxEnvs == 2

\* a key or a value is any string; "=" is a character like another
EnvKeyTexts == {<<"K">>, <<"S">>, <<"K", "=", "S">>}

EnvValueTexts == {<<>>, <<"a">>, <<"a", "=", "b">>}

\* the env lists of up to MaxEnvs entries whose keys are pairwise different
EnvLists ==
    {l \in SlicesOfLen([key : EnvKeyTexts, value : EnvValueTexts], MaxEnvs) :
        \A i, j \in 1..Len(l.elems) : l.elems[i].key = l.elems[j].key => i = j}

InitEnvs ==
    /\ op = "EnvsWrite"
    /\ rev = "part_006"
    /\ plan \in EnvLists
    /\ remote \in [isSecret : BOOLEAN]
    /\ pc = "toWire"
    /\ state = <<>>
    /\ stateWrites = 0
    /\ diags = <<>>
    /\ calls = <<>>
    /\ order = <<>>
    /\ response = NoResponse
    /\ topicId = 0
    /\ ports = NilSlice
    /\ NoGateway
    /\ script = <<>>
    /\ truncLast = FALSE
    /\ streamEnd = "eof"
    /\ pos = 1
    /\ wpc = "idle"
    /\ wdata = <<>>
    /\ werr = ""
    /\ elapsed = 0

\* mapEnvsToClientEnvs(envList, isSecret)
Envs_ToWire ==
    /\ pc = "toWire"
    /\ order' = <<mapEnvsToClientEnvs(plan, remote.isSecret)>>
    /\ pc' = "fromWire"
    /\ UNCHANGED <<wvars, gvars, op, rev, plan, state, stateWrites, diags, calls, remote,
                   response, topicId, ports>>

\* mapClientEnvsToEnvs of the written list: the bucket it was written to
\* (kept in state) and the opposite one (kept in ports)
Envs_FromWire ==
    /\ pc = "fromWire"
    /\ state' = <<mapClientEnvsToEnvs(order[1], remote.isSecret)>>
    /\ ports' = mapClientEnvsToEnvs(order[1], ~remote.isSecret)
    /\ pc' = "done"
    /\ UNCHANGED <<wvars, gvars, op, rev, plan, stateWrites, diags, calls, remote, order,
                   response, topicId>>

NextEnvs == Envs_ToWire \/ Envs_FromWire

SpecEnvs == InitEnvs /\ [][NextEnvs]_vars

-----------------------------------------------------------------------------
(* The storage figures on the wire: Create writes "<n>Gi", Read strips the
   last two characters and parses the rest. *)

\* the schema's int64validator.AtLeast / AtMost of storage and of size
StorageAtLeast == 1

StorageAtMost == 1024

SprintfGi_GiB(n) == Digits(n) \o <<"G", "i", "B">>

\* fmt.Sprintf("%dGi", int(n))
SprintfGi(n) == Digits(n) \o <<"G", "i">>

InitStorage ==
    /\ op = "StorageWrite"
    /\ rev = "part_006"
    /\ plan \in [Storage : {KnownInt(n) : n \in StorageAtLeast..StorageAtMost}]
    /\ remote = [instanceState |-> "Active"]
    /\ pc = "toGi"
    /\ state = <<>>
    /\ stateWrites = 0
    /\ diags = <<>>
    /\ calls = <<>>
    /\ order = <<>>
    /\ response = NoResponse
    /\ topicId = 0
    /\ ports = NilSlice
    /\ NoGateway
    /\ script = <<>>
    /\ truncLast = FALSE
    /\ streamEnd = "eof"
    /\ pos = 1
    /\ wpc = "idle"
    /\ wdata = <<>>
    /\ werr = ""
    /\ elapsed = 0

\* part_006:366, 378: the figure as Create puts it in the request
Storage_ToGi ==
    /\ pc = "toGi"
    /\ order' = <<SprintfGi(ValueInt64(plan.Storage))>>
    /\ pc' = "parseGi"
    /\ UNCHANGED <<wvars, gvars, op, rev, plan, state, stateWrites, diags, calls, remote,
                   response, topicId, ports>>

\* part_006:542-544: state.Storage, through RemoveGiSuffix and Atoi;
\* part_006:578-580: the persistent size, through the slice and Atoi
Storage_ParseGi ==
    /\ pc = "parseGi"
    /\ state' = <<[Storage |-> KnownInt(Atoi(RemoveGiSuffix(order[1])).n),
                   Size |-> TrackedStorage(NullStorage,
                               PersistentStorage(<<"beta1">>, <<"/data">>, order[1])).value.Size]>>
    /\ pc' = "done"
    /\ UNCHANGED <<wvars, gvars, op, rev, plan, stateWrites, diags, calls, remote, order,
                   response, topicId, ports>>

NextStorage == Storage_ToGi \/ Storage_ParseGi

SpecStorage == InitStorage /\ [][NextStorage]_vars

-----------------------------------------------------------------------------
(* GetOrganizationId called from several goroutines on one gateway: the host
   runs the resources' operations concurrently on the one configured client,
   and the field is read and written with no synchronisation.  A string store
   is two word stores, so a concurrent load may see one of them only. *)

MaxCallers == 3

Callers == 1..MaxCallers

CallerAt(c, at) == callers[c].pc = at

Goto(c, at) == callers' = [callers EXCEPT ![c].pc = at]

OrgFrame == UNCHANGED <<wvars, rvars, emitted>>

\* client.go:106: if api.organizationId == ""
Org_Check ==
    /\ \E c \in Callers :
          /\ CallerAt(c, "check")
          /\ Goto(c, IF IsEmptyString(organizationId) THEN "scope" ELSE "return")
    /\ UNCHANGED organizationId
    /\ OrgFrame

\* client.go:107-114: getTokenScope fails, or the token has not exactly one
\* organization, or the lookup yields the organization
Org_Scope ==
    /\ \E c \in Callers :
          /\ CallerAt(c, "scope")
          /\ \E outcome \in {"ok", "failed", "unsupported"} :
                callers' = [callers EXCEPT
                    ![c].pc = IF outcome = "ok" THEN "store" ELSE "done",
                    ![c].err = outcome # "ok",
                    ![c].lookups = @ + 1]
    /\ UNCHANGED organizationId
    /\ OrgFrame

\* client.go:116: the first word of the store, whichever the build writes
\* first
Org_StoreFirst ==
    /\ \E c \in Callers :
          /\ CallerAt(c, "store")
          /\ \E word \in {"ptr", "len"} :
                /\ organizationId' =
                      IF word = "ptr"
                      THEN [organizationId EXCEPT !.ptr = OrganizationIdValue.ptr]
                      ELSE [organizationId EXCEPT !.len = OrganizationIdValue.len]
                /\ Goto(c, IF word = "ptr" THEN "storeLen" ELSE "storePtr")
    /\ OrgFrame

\* client.go:116: the other word
Org_StoreSecond ==
    /\ \E c \in Callers :
          /\ callers[c].pc \in {"storeLen", "storePtr"}
          /\ organizationId' =
                IF CallerAt(c, "storePtr")
                THEN [organizationId EXCEPT !.ptr = OrganizationIdValue.ptr]
                ELSE [organizationId EXCEPT !.len = OrganizationIdValue.len]
          /\ Goto(c, "return")
    /\ OrgFrame

\* client.go:119: return api.organizationId, nil
Org_Return ==
    /\ \E c \in Callers :
          /\ CallerAt(c, "return")
          /\ callers' = [callers EXCEPT ![c].pc = "done", ![c].result = organizationId]
    /\ UNCHANGED organizationId
    /\ OrgFrame

InitOrg ==
    /\ organizationId = EmptyString
    /\ emitted = <<>>
    /\ callers = [c \in Callers |->
                     [pc |-> "check", err |-> FALSE, result |-> EmptyString, lookups |-> 0]]
    /\ op = "none"
    /\ rev = "part_006"
    /\ pc = "done"
    /\ plan = <<>>
    /\ state = <<>>
    /\ stateWrites = 0
    /\ diags = <<>>
    /\ calls = <<>>
    /\ remote = <<>>
    /\ order = <<>>
    /\ response = NoResponse
    /\ topicId = 0
    /\ ports = NilSlice
    /\ script = <<>>
    /\ truncLast = FALSE
    /\ streamEnd = "eof"
    /\ pos = 1
    /\ wpc = "idle"
    /\ wdata = <<>>
    /\ werr = ""
    /\ elapsed = 0

NextOrg == Org_Check \/ Org_Scope \/ Org_StoreFirst \/ Org_StoreSecond \/ Org_Return

SpecOrg == InitOrg /\ [][NextOrg]_vars

InitWait ==
    /\ script \in SeqsUpTo(WaitEvents, MaxEvents)
    /\ truncLast \in (IF script = <<>> THEN {FALSE} ELSE BOOLEAN)
    /\ streamEnd \in {"eof", "open"}
    /\ pos = 1
    /\ wpc = "line"
    /\ wdata = <<>>
    /\ werr = ""
    /\ elapsed = 0
    /\ NoReconciler

NextWait == WaitReadLine \/ WaitReadData \/ Tick

SpecWait == InitWait /\ [][NextWait]_vars

-----------------------------------------------------------------------------
(* Claims about the waiter, checked under SpecWait *)

\* event k reaches the reader whole (its data line is delivered)
Delivered(k) == k \in 1..Len(script) /\ (k < Len(script) \/ ~truncLast)

\* a message event whose numeric type field is 2 or 3
Terminal(k) == script[k].name = "message" /\ script[k].type \in {2, 3}

\* event k is the first terminal message event the body delivers
FirstTerminal(k) ==
    /\ Delivered(k)
    /\ Terminal(k)
    /\ \A i \in 1..(k - 1) : ~Terminal(i)

\* the event whose data line the reader holds when it returns from line pos
EventOfLine(p) == script[(p + 1) \div 3]

\* C1: when the body is message events of type other than 2 and 3 followed
\* by a message event of type 2, the call returns no error and exactly the
\* data line of that type-2 event.
C1_SuccessPayload ==
    \A k \in 1..Len(script) :
        ( /\ FirstTerminal(k)
          /\ script[k].type = 2
          /\ \A i \in 1..(k - 1) : script[i].name = "message"
          /\ wpc = "done" )
        => (werr = "" /\ wdata = DataLine(script[k]))

\* C2: the call returns an error and an empty payload when the first
\* terminal message event has type 3, and when the body ends before any
\* terminal message event was delivered.
C2_FailurePayload ==
    ( /\ wpc = "done"
      /\ \/ \E k \in 1..Len(script) : FirstTerminal(k) /\ script[k].type = 3
         \/ \A k \in 1..Len(script) : ~(Delivered(k) /\ Terminal(k)) )
    => (werr # "" /\ wdata = <<>>)

\* C3: a message event whose type is neither 2 nor 3 never ends the wait:
\* whenever the call has returned on a data line, success or failure, that
\* line is the data line of an event of type 2 or 3.
C3_OtherTypesKeepReading ==
    (wpc = "done" /\ werr \in {"", "Deployment failed"})
    => EventOfLine(pos).type \in {2, 3}

\* C4: the wait is ended by the transport timeout of the gateway's HTTP
\* calls: the reader is never still blocked once more than that timeout has
\* passed on an open, silent body.
C4_WaitEndsByTransportTimeout ==
    Blocked => elapsed * TickSeconds <= HttpTimeout

-----------------------------------------------------------------------------
(* Claims about the reconcilers, checked under SpecProvider *)

CallsNamed(name) == {i \in 1..Len(calls) : calls[i].name = name}

Succeeded(name) == \E i \in CallsNamed(name) : calls[i].ok

Failed(name) == \E i \in CallsNamed(name) : ~calls[i].ok

SubmitNames == {"CreateClusterInstance", "CreateClusterInstanceFromTemplate",
                "UpdateClusterInstance"}

SubmitSucceeded == \E n \in SubmitNames : Succeeded(n)

\* the wait of this operation has returned an error
WaitFailed == wpc = "done" /\ werr # ""

\* the wait of this operation has returned a payload
WaitSucceeded == wpc = "done" /\ werr = ""

\* plan and order differ in args, command, merged env or tag, as the values
\* the handler holds: an absent list and an empty list are different values
Differs(pl, ord) ==
    \/ pl.Args # ord.Args
    \/ pl.Commands # ord.Command
    \/ MergedEnv(pl) # ord.Env
    \/ ValueString(pl.Tag) # ord.Tag

\* Update has fetched the order and made its redeploy decision
Decided == op = "InstanceUpdate" /\ order # <<>> /\ pc # "diff"

\* b holds the entries of a in another order
Reordered(a, b) ==
    /\ Len(a.elems) = Len(b.elems)
    /\ {a.elems[i] : i \in 1..Len(a.elems)} = {b.elems[i] : i \in 1..Len(b.elems)}
    /\ a.elems # b.elems

\* the state the operation started from
StateBefore == IF op = "InstanceUpdate" THEN <<PriorState(remote.order)>> ELSE <<>>

C6_EnvSetArgsOrdered ==
    Decided =>
        /\ ( /\ plan.Args = order[1].Args
             /\ plan.Commands = order[1].Command
             /\ ValueString(plan.Tag) = order[1].Tag
             /\ Reordered(MergedEnv(plan), order[1].Env) )
              => CallsNamed("UpdateClusterInstance") = {}
        /\ (Reordered(plan.Args, order[1].Args)
                \/ Reordered(plan.Commands, order[1].Command))
              => Cardinality(CallsNamed("UpdateClusterInstance")) = 1

\* the plan's health-check block is present with a path and a port
HealthCheckPresent ==
    /\ plan.HealthCheck.st = "known"
    /\ plan.HealthCheck.Path.st = "known"
    /\ plan.HealthCheck.Port.st = "known"

\* C7: once Instance Update is past its health-check step, it has issued the
\* health-check update call exactly once if the plan's health-check block has
\* a path and a port, whatever the diff says, and not at all if the block is
\* absent.
C7_HealthCheckCallOnlyWithBlock ==
    (op = "InstanceUpdate" /\ pc \notin {"org", "healthCheck"}
        /\ Succeeded("GetOrganization"))
        => Cardinality(CallsNamed("UpdateClusterInstanceHealthCheckInfo"))
              = (IF HealthCheckPresent THEN 1 ELSE 0)

\* C8: the redeploy decision of Instance Update does not depend on the
\* health-check push: an Update that has returned after a failed health-check
\* call, with args, command, merged env or tag different from the active
\* order, has issued UpdateClusterInstance.
C8_RedeployDespiteHealthCheckFailure ==
    (op = "InstanceUpdate" /\ pc = "done"
        /\ Failed("UpdateClusterInstanceHealthCheckInfo")
        /\ Differs(plan, remote.order))
        => Cardinality(CallsNamed("UpdateClusterInstance")) = 1

\* C9: in Instance Create, Marketplace Create and the redeploy cycle of
\* Instance Update, when the submit call succeeded and the wait has returned
\* an error, nothing is written to tracked state, the wait is the last remote
\* call issued (no close, no compensation), and the operation returns with an
\* error diagnostic.
C9_WaitFailureTracksNothing ==
    (op \in Ops /\ SubmitSucceeded /\ WaitFailed) =>
        /\ stateWrites = 0
        /\ state = StateBefore
        /\ calls[Len(calls)].name = "WaitForDeployedEvent"
        /\ pc \in {"wait", "done"}
        /\ pc = "done" => HasError

\* an Instance Create has returned after its deployment was reported failed
C9_Witness ==
    /\ op = "InstanceCreate"
    /\ pc = "done"
    /\ Succeeded("CreateClusterInstance")
    /\ wpc = "done"
    /\ werr = "Deployment failed"
    /\ HasError
    /\ state = <<>>

\* C10: a Create that has returned after a successful submit and a successful
\* wait tracks the created instance id, whatever happened to its later steps
\* (parsing the ports of the payload, reading back the order).
C10_CreatedIdTracked ==
    (op \in {"InstanceCreate", "MarketplaceCreate"} /\ pc = "done"
        /\ SubmitSucceeded /\ WaitSucceeded)
        => /\ state # <<>>
           /\ state[1].Id = Known(response.ClusterInstanceID)

\* a Create has returned without an error diagnostic
CreateSucceeded ==
    op \in {"InstanceCreate", "MarketplaceCreate"} /\ pc = "done" /\ ~HasError

\* the event whose data line the waiter returned
ReturnedEvent == EventOfLine(pos)

Populated(a) == a.st = "known" /\ a.v # <<>>

\* C12: after a successful Instance Create exactly one of the machine-image
\* selector and the (cpu, memory) pair is populated in tracked state.
C12_ExactlyOneMachineSpec ==
    (CreateSucceeded /\ op = "InstanceCreate") =>
        /\ state # <<>>
        /\ Populated(state[1].MachineImage)
              # (Populated(state[1].Cpu) /\ Populated(state[1].Memory))

\* the close call of this Delete
CloseCall == calls[CHOOSE i \in CallsNamed("CloseClusterInstance") : TRUE]

HasWarning == \E i \in 1..Len(diags) : diags[i].severity = "warning"

\* Read has been told by GetClusterInstance that the instance is closed
ReadFoundClosed ==
    /\ op \in {"InstanceRead", "MarketplaceRead", "DomainRead"}
    /\ rev = "part_006"
    /\ remote.instanceState = "Closed"
    /\ Succeeded("GetClusterInstance")

ChosenApp == findMarketplaceAppByName(remote.templates, plan.Name)

EnvKeys == {plan.Env[i].key : i \in 1..Len(plan.Env)}

\* the variables of the chosen template marked required that the user left out
RequiredUnsupplied ==
    {i \in 1..Len(ChosenApp.app.Variables) :
        /\ ChosenApp.app.Variables[i].Required
        /\ ChosenApp.app.Variables[i].Name \notin EnvKeys}

\* ... and that have no template default either
RequiredUnresolved ==
    {i \in RequiredUnsupplied : ChosenApp.app.Variables[i].DefaultValue = <<>>}

\* the error diagnostics of the required-variable check
VariableErrors ==
    {i \in 1..Len(diags) : diags[i].summary = "Required env variable not set!"}

\* Create has come to the required-variable check
VariablesChecked ==
    /\ op = "MarketplaceCreate"
    /\ Succeeded("GetClusterTemplates")
    /\ ~ChosenApp.err

\* C15: a MarketplaceInstance Create for a template with a required variable
\* the user gave no value for makes no remote call at all, and once it has
\* returned it has reported an error naming a missing variable and written no
\* tracked state; when every required variable is supplied, Create passes the
\* check on its way to the template-create submission.
C15_RequiredVariableCheck ==
    (op = "MarketplaceCreate" /\ ~ChosenApp.err) =>
        /\ RequiredUnsupplied # {} =>
              /\ calls = <<>>
              /\ state = <<>>
              /\ (pc = "done" =>
                    \E i \in VariableErrors : \E j \in RequiredUnsupplied :
                        diags[i].detail = MissingMessage(ChosenApp.app.Variables[j].Name))
        /\ RequiredUnsupplied = {} => VariableErrors = {}

\* C16: the required-variable check fails a Create only if some variable of
\* the chosen template is marked required, has no template default and was
\* given no value by the user.
C16_OnlyRequiredUnresolvedRejected ==
    (VariablesChecked /\ VariableErrors # {}) => RequiredUnresolved # {}

\* the entries of plan.Env whose key names a variable of the chosen template
MatchedEnv ==
    SelectSeq(plan.Env, LAMBDA e :
        \E i \in 1..Len(ChosenApp.app.Variables) : ChosenApp.app.Variables[i].Name = e.key)

\* C17: every submitted marketplace create request carries, in the user's
\* order, one environmentVariables entry per user entry whose key names a
\* variable of the chosen template, with that variable's label and the user's
\* value, and nothing for a key no template variable has.
C17_SubmittedVariablesLabelled ==
    \A c \in CallsNamed("CreateClusterInstanceFromTemplate") :
        /\ Len(calls[c].body) = Len(MatchedEnv)
        /\ \A i \in 1..Len(calls[c].body) :
              /\ calls[c].body[i].Value = MatchedEnv[i].value
              /\ \E j \in 1..Len(ChosenApp.app.Variables) :
                    /\ ChosenApp.app.Variables[j].Name = MatchedEnv[i].key
                    /\ ChosenApp.app.Variables[j].Label = calls[c].body[i].Label

\* a request was submitted for a plan with a key the template does not declare
C17_Witness ==
    /\ Succeeded("CreateClusterInstanceFromTemplate")
    /\ Len(MatchedEnv) = 1
    /\ Len(plan.Env) = 2
    /\ \A c \in CallsNamed("CreateClusterInstanceFromTemplate") :
          calls[c].body = <<[Value |-> <<"x">>, Label |-> <<"Api key">>]>>

DomainSubmitNames == {"AddClusterInstanceDomain", "UpdateClusterInstanceDomain"}

DomainSubmits == {i \in 1..Len(calls) : calls[i].name \in DomainSubmitNames}

\* Domain Create or Update has fetched the active order of the instance
DomainOrderFetched ==
    /\ op \in {"DomainCreate", "DomainUpdate"}
    /\ order # <<>>

\* the port mappings of the fetched order that have the requested container
\* port
RequestedMappings ==
    {i \in 1..Len(order[1].Ports) :
        order[1].Ports[i].containerPort = plan.InstancePort.n}

\* the handler returned an error right after fetching the order
ResolutionFailed ==
    /\ pc = "done"
    /\ HasError
    /\ calls[Len(calls)].name = "GetClusterInstanceOrder"

\* the handler went on with this link: it did not fail on the link, and every
\* add-domain or update-domain request carries it
ResolvedTo(link) ==
    /\ pc # "panic"
    /\ ~ResolutionFailed
    /\ \A i \in DomainSubmits : calls[i].body.Link = link

\* C18: once Domain Create or Update has the active order, for the requested
\* container port p: with no mapping of p the handler has failed with an
\* error and issued no add-domain or update-domain call; with a single
\* mapping of p to exposed port 80 and a preview URL the link is the preview
\* URL; with a single mapping of p to another exposed port e, on an order
\* that has a provider host or a preview URL, the link is providerHost ":" e.
C18_DomainLinkResolution ==
    DomainOrderFetched =>
        /\ RequestedMappings = {} => (ResolutionFailed /\ DomainSubmits = {})
        /\ \A i \in RequestedMappings :
              Cardinality(RequestedMappings) = 1 =>
                 IF order[1].Ports[i].exposedPort = 80 /\ order[1].URLPreview # <<>>
                 THEN ResolvedTo(order[1].URLPreview)
                 ELSE (order[1].Ports[i].exposedPort # 80 /\ HasDeploymentURL(order[1])) =>
                         ResolvedTo(HostPort(order[1], order[1].Ports[i].exposedPort))

UpdateDomainCalls == CallsNamed("UpdateClusterInstanceDomain")

\* the order fetches of Domain Update that succeeded, one per invocation
OrderFetches == {i \in CallsNamed("GetClusterInstanceOrder") : calls[i].ok}

\* the links the fetched order offers for the requested container port
OfferedLinks ==
    {order[1].URLPreview} \cup
    {HostPort(order[1], order[1].Ports[i].exposedPort) : i \in RequestedMappings}

\* the link of this Domain Update resolved
UpdateLinkResolves ==
    /\ op = "DomainUpdate"
    /\ order # <<>>
    /\ pc # "panic"
    /\ ~ResolutionFailed

\* every invocation whose link resolved has issued one update-domain call by
\* the time it returns, with the plan's name and type and a non-empty link of
\* the fetched order, and all invocations sent the same request
C19_OneUpdatePerInvocation ==
    UpdateLinkResolves =>
        /\ Cardinality(UpdateDomainCalls) =
              Cardinality(OrderFetches) - (IF pc = "domSubmit" THEN 1 ELSE 0)
        /\ \A i \in UpdateDomainCalls :
              /\ calls[i].body.Name = ValueString(plan.Name)
              /\ calls[i].body.Type = ValueString(plan.Type)
              /\ calls[i].body.Link # <<>>
              /\ calls[i].body.Link \in OfferedLinks
        /\ \A i, j \in UpdateDomainCalls : calls[i].body = calls[j].body

\* a repeated invocation that succeeds leaves the tracked state as the first
\* one wrote it
C19_RepeatKeepsState ==
    (op = "DomainUpdate" /\ stateWrites = 1 /\ stateWrites' = 2) => state' = state

\* C19: every Domain Update whose link resolves issues exactly one
\* update-domain call carrying the link taken from the order it just fetched,
\* whatever the plan changes; the same Update repeated against the unchanged
\* remote sends the same request and writes the same tracked state.
C19_DomainUpdateAlwaysPushes ==
    /\ []C19_OneUpdatePerInvocation
    /\ [][C19_RepeatKeepsState]_vars

\* an Update that changes the port alone was applied twice
C19_Witness ==
    /\ op = "DomainUpdate"
    /\ stateWrites = 2
    /\ pc = "done"
    /\ Cardinality(UpdateDomainCalls) = 2
    /\ plan.Name = DomainTracked.Name
    /\ plan.Type = DomainTracked.Type
    /\ plan.InstancePort # DomainTracked.InstancePort

-----------------------------------------------------------------------------
(* Claims about the port mappings, checked under SpecPorts *)

\* the two lists have the same length and, place by place, the same
\* container port
SameContainerPorts(model, wire) ==
    /\ Len(model.elems) = Len(wire.elems)
    /\ \A i \in 1..Len(model.elems) :
          /\ model.elems[i].containerPort.st = "known"
          /\ model.elems[i].containerPort.n = wire.elems[i].containerPort

\* the wire list carries the exposed ports of the model list, an unset or
\* zero one replaced by the container port
ExposedDefaulted(model, wire) ==
    \A i \in 1..Len(model.elems) :
        LET e == model.elems[i].exposedPort
        IN  wire.elems[i].exposedPort =
               (IF e.st = "known" /\ e.n # 0 THEN e.n
                ELSE wire.elems[i].containerPort)

AllExposedSet(model) ==
    \A i \in 1..Len(model.elems) :
        /\ model.elems[i].exposedPort.st = "known"
        /\ model.elems[i].exposedPort.n # 0

\* C20: writing a port list and reading a port list both keep length, order
\* and container port; writing replaces an exposed port that is unset or 0 by
\* the container port and sends any other unchanged; a written list read back
\* has the elements of the original when every exposed port was non-zero.
C20_PortMappingRoundTrip ==
    /\ (op = "PortsWrite" /\ order # <<>>) =>
          /\ SameContainerPorts(plan, order[1])
          /\ ExposedDefaulted(plan, order[1])
    /\ (op = "PortsWrite" /\ pc = "done") =>
          /\ SameContainerPorts(ports, order[1])
          /\ (AllExposedSet(plan) => ports.elems = plan.elems)
    /\ (op = "PortsRead" /\ order # <<>>) => SameContainerPorts(order[1], plan)
    /\ (op = "PortsRead" /\ pc = "done") =>
          /\ SameContainerPorts(order[1], ports)
          /\ ExposedDefaulted(order[1], ports)

\* a two-port list with one exposed port left unset was written and read back
C20_Witness ==
    /\ op = "PortsWrite"
    /\ pc = "done"
    /\ Len(plan.elems) = 2
    /\ plan.elems[1].exposedPort = UnknownInt
    /\ plan.elems[2].exposedPort = KnownInt(80)
    /\ plan.elems[1].containerPort = KnownInt(8000)
    /\ ports.elems[1].exposedPort = KnownInt(8000)
    /\ ports.elems[2] = plan.elems[2]

-----------------------------------------------------------------------------
(* Claims about the env mappings, checked under SpecEnvs *)

\* the written list was read back: bucket s has the entries of the original
\* in order, the opposite bucket has none, and every wire entry is
\* key "=" value under flag s
EnvsReadBack ==
    /\ Len(order[1].elems) = Len(plan.elems)
    /\ \A i \in 1..Len(plan.elems) :
          /\ order[1].elems[i].isSecret = remote.isSecret
          /\ order[1].elems[i].value =
                plan.elems[i].key \o <<"=">> \o plan.elems[i].value
    /\ state[1].elems = plan.elems
    /\ ports.elems = <<>>

\* no key of the list contains "="
KeysWithoutEq ==
    \A i \in 1..Len(plan.elems) :
        \A j \in 1..Len(plan.elems[i].key) : plan.elems[i].key[j] # "="

\* C21 as stated: every env list with unique keys, written with flag s and
\* read back from bucket s, is the original list in order, and the opposite
\* bucket is empty.
C21_EnvRoundTrip_AnyKey ==
    (op = "EnvsWrite" /\ pc = "done") => EnvsReadBack

\* C21: every env list with unique keys none of which contains "=", written
\* with flag s and read back from bucket s, is the original list in order,
\* also when values contain "=", and the opposite bucket is empty.
C21_EnvRoundTrip ==
    (op = "EnvsWrite" /\ pc = "done" /\ KeysWithoutEq) => EnvsReadBack

\* a two-entry list with a value containing "=" was written and read back
C21_Witness ==
    /\ op = "EnvsWrite"
    /\ pc = "done"
    /\ KeysWithoutEq
    /\ Len(plan.elems) = 2
    /\ plan.elems[2].value = <<"a", "=", "b">>
    /\ state[1].elems = plan.elems

-----------------------------------------------------------------------------
(* Claims about Read and Update, checked under SpecProvider *)

StorageClasses == {<<"HDD">>, <<"SSD">>, <<"NVMe">>}

StorageCodes == {<<"beta1">>, <<"beta2">>, <<"beta3">>}

\* the two lookups undo each other on the three classes and the three codes
ClassMappingInverse ==
    /\ \A k \in StorageClasses :
          /\ ~GetPersistentStorageClassEnum(k).err
          /\ GetPersistentStorageClassEnum(k).value \in StorageCodes
          /\ GetStorageClassFromValue(GetPersistentStorageClassEnum(k).value) =
                [err |-> FALSE, class |-> k]
    /\ \A c \in StorageCodes :
          /\ ~GetStorageClassFromValue(c).err
          /\ GetPersistentStorageClassEnum(GetStorageClassFromValue(c).class) =
                [err |-> FALSE, value |-> c]

\* the current Read has fetched an order whose persistent storage has a class
\* code the provider has no name for
ReadMetUnknownClass ==
    /\ op \in {"InstanceRead", "MarketplaceRead"}
    /\ rev = "part_006"
    /\ order # <<>>
    /\ ~remote.persistentStorage.nil
    /\ remote.persistentStorage.Class # <<>>
    /\ GetStorageClassFromValue(remote.persistentStorage.Class).err

\* C22: HDD/SSD/NVMe and beta1/beta2/beta3 are mapped onto each other by two
\* lookups that are mutual inverses, and an Instance or MarketplaceInstance
\* Read that has met an unknown class code returns with an error diagnostic
\* and without writing tracked state.
C22_UnknownStorageClassIsError ==
    /\ ClassMappingInverse
    /\ (ReadMetUnknownClass /\ pc = "done") => (HasError /\ stateWrites = 0)

-----------------------------------------------------------------------------
(* Claims about the memoized organization id, checked under SpecOrg *)

\* every call that returned without error returned the organization id
SuccessfulCallsAgree ==
    \A c \in Callers :
        (callers[c].pc = "done" /\ ~callers[c].err) =>
            callers[c].result = OrganizationIdValue

\* the memoized id, once set, stays what it is
MemoizedIdKept ==
    organizationId = OrganizationIdValue => organizationId' = OrganizationIdValue

C24_MarketplaceUpdatePassThrough ==
    op = "MarketplaceUpdate" =>
        /\ calls = <<>>
        /\ pc = "done" => (state = <<plan>> /\ stateWrites = 1 /\ ~HasError)

\* an Update with a plan other than the tracked state has returned
C24_Witness ==
    /\ op = "MarketplaceUpdate"
    /\ pc = "done"
    /\ plan # MarketplaceTracked
    /\ plan.Env # <<>>
    /\ state = <<plan>>

\* C25: for every n in [1,1024], n written as "<n>Gi" and read back by
\* dropping the last two characters and parsing the rest is n again, on the
\* instance-storage path and on the persistent-size path.
C25_GiRoundTrip ==
    (op = "StorageWrite" /\ pc = "done") =>
        /\ order[1] = Digits(ValueInt64(plan.Storage)) \o <<"G", "i">>
        /\ state[1].Storage = plan.Storage
        /\ state[1].Size = plan.Storage

\* the largest figure, four digits long, has been written and read back
C25_Witness ==
    /\ op = "StorageWrite"
    /\ pc = "done"
    /\ plan.Storage = KnownInt(StorageAtMost)
    /\ order = << <<"1", "0", "2", "4", "G", "i">> >>
    /\ state[1].Storage = KnownInt(1024)
    /\ state[1].Size = KnownInt(1024)

Submits == {"CreateClusterInstance", "UpdateClusterInstance"}

\* the calls of the cycle issued before the i-th call
SubmitBefore(i) == \E j \in 1..(i - 1) : calls[j].name \in Submits

\* the submit carries a token no earlier call carried and the one the
\* operation holds; the subscription follows a submit that returned with
\* success and carries its token; an order fetched after the submit follows
\* a wait that returned with success
CycleInOrder ==
    \A i \in DOMAIN calls :
        /\ calls[i].name \in Submits =>
              /\ calls[i].topic = topicId
              /\ \A j \in 1..(i - 1) :
                    calls[j].topic # calls[i].topic /\ calls[j].name \notin Submits
        /\ calls[i].name = "WaitForDeployedEvent" =>
              /\ i > 1
              /\ calls[i - 1].name \in Submits
              /\ calls[i - 1].ok
              /\ calls[i - 1].topic = calls[i].topic
        /\ (calls[i].name = "GetClusterInstanceOrder" /\ SubmitBefore(i)) =>
              /\ calls[i - 1].name = "WaitForDeployedEvent"
              /\ calls[i - 1].ok
              /\ wpc = "done"
              /\ werr = ""

\* the waiter is not started before a submit has returned with success
WaitAfterSubmit ==
    wpc # "idle" => \E i \in DOMAIN calls : calls[i].name \in Submits /\ calls[i].ok

\* a step that generates a token issues the submit that carries it, and the
\* token is none a call has carried before
TokenThenSubmit ==
    (op \in {"InstanceCreate", "InstanceUpdate"} /\ topicId' # topicId) =>
        /\ \A i \in DOMAIN calls : calls[i].topic # topicId'
        /\ Len(calls') = Len(calls) + 1
        /\ calls'[Len(calls')].name \in Submits
        /\ calls'[Len(calls')].topic = topicId'

\* C26: within one Create or one redeploy cycle of Update the remote steps
\* come in the order token, submit, wait, read-back: the subscription is
\* opened only after the submit returned with success and with the token the
\* submit carried, the order is read back only after the wait returned with
\* success, and the token of the cycle is freshly generated.
C26_CycleStrictlySequential ==
    /\ [](op \in {"InstanceCreate", "InstanceUpdate"} => CycleInOrder /\ WaitAfterSubmit)
    /\ [][TokenThenSubmit]_vars

\* a Create has gone through all four steps
C26_Witness ==
    /\ op = "InstanceCreate"
    /\ pc = "done"
    /\ Len(calls) >= 3
    /\ calls[Len(calls)].name = "GetClusterInstanceOrder"
    /\ calls[Len(calls) - 1].name = "WaitForDeployedEvent"
    /\ calls[Len(calls) - 2].name = "CreateClusterInstance"
    /\ calls[Len(calls) - 2].topic = calls[Len(calls) - 1].topic
    /\ calls[Len(calls) - 2].topic > 0

\* an Update has gone through its redeploy cycle
C26_WitnessUpdate ==
    /\ op = "InstanceUpdate"
    /\ pc = "done"
    /\ ~HasError
    /\ \E i \in DOMAIN calls : calls[i].name = "WaitForDeployedEvent" /\ calls[i].ok

\* the operation has returned right after a failed fetch of the active order
OrderFetchFailed ==
    /\ pc = "done"
    /\ calls # <<>>
    /\ calls[Len(calls)].name = "GetClusterInstanceOrder"
    /\ ~calls[Len(calls)].ok

\* C27: when the active order cannot be fetched, Instance Read fails with an
\* error diagnostic and leaves the tracked state as it was, while
\* MarketplaceInstance Read reports nothing, sets machine_image and region to
\* "" and name to the cluster's name, keeps every other field and saves that.
C27_OrderFetchFailure ==
    /\ (op = "InstanceRead" /\ OrderFetchFailed) =>
          /\ HasError
          /\ diags[Len(diags)].summary = "Instance doesn't have provisioned deployments."
          /\ stateWrites = 0
          /\ state = TrackedBefore(op, plan, remote)
    /\ (op = "MarketplaceRead" /\ OrderFetchFailed) =>
          /\ diags = <<>>
          /\ stateWrites = 1
          /\ Len(state) = 1
          /\ DOMAIN state[1] = DOMAIN plan
          /\ state[1].MachineImage = Known(<<>>)
          /\ state[1].Region = Known(<<>>)
          /\ state[1].Name = remote.clusterName
          /\ \A k \in DOMAIN plan \ {"MachineImage", "Region", "Name"} :
                state[1][k] = plan[k]

\* a marketplace Read of an instance that is not closed has saved the
\* degraded state, which differs from the one it was handed
C27_Witness ==
    /\ op = "MarketplaceRead"
    /\ rev = "part_006"
    /\ remote.instanceState # "Closed"
    /\ OrderFetchFailed
    /\ state # <<plan>>
    /\ state[1].Cpu = plan.Cpu

\* an Instance Read of an instance that is not closed has failed on the order
C27_WitnessInstance ==
    /\ op = "InstanceRead"
    /\ remote.instanceState # "Closed"
    /\ OrderFetchFailed
    /\ HasError

\* the plan of the Update is the state an Instance Read of the active order
\* writes, and the order has not changed since
PlanIsReadState ==
    /\ op = "InstanceUpdate"
    /\ plan = PriorState(remote.order)

Redeployed == \E i \in DOMAIN calls : calls[i].name = "UpdateClusterInstance"

\* C28: an Instance Update whose plan is the state the preceding Instance Read
\* wrote, with no remote change in between, issues no update-and-redeploy
\* call, whatever the order's args, command and env are.
C28_UpdateAfterReadIsNoOp ==
    PlanIsReadState => ~Redeployed

\* the subscription of the cycle was opened
Subscribed ==
    /\ calls # <<>>
    /\ calls[Len(calls)].name = "WaitForDeployedEvent"
    /\ calls[Len(calls)].ok

\* C29: in Create and in the redeploy cycle of Update, a terminal event the
\* remote emitted after the submit returned and before the subscription was
\* opened is the one the waiter returns on, and the waiter never waits for it
\* on a body that will not carry it.
C29_EarlyTerminalEventObserved ==
    (op \in {"InstanceCreate", "InstanceUpdate"} /\ emitted # <<>>) =>
        /\ ~Blocked
        /\ (wpc = "done" /\ Subscribed /\ pc = "wait") =>
              IF emitted[1].type = 2 THEN werr = "" ELSE werr = "Deployment failed"

\* the tracked domain id is not among the domains the remote lists
DomainAbsent ==
    /\ op = "DomainRead"
    /\ findDomainByID(remote.domains, ValueString(plan.ID)).err

\* C30: a Domain Read whose tracked domain id is not among the domains the
\* remote lists for the instance saves no state: it writes no name, type,
\* verified or instance_port taken from the empty domain record, whatever the
\* ports, provider host and preview URL of the active order are.
C30_AbsentDomainNotSaved ==
    DomainAbsent =>
        /\ stateWrites = 0
        /\ state \in {<<>>, <<plan>>}

====
